---- MODULE Spec2Model ----
(***************************************************************************)
(* Cross-marketplace publish / unpublish orchestration of the skateboard   *)
(* listing manager (backend/server.py, backend/ebay_config.py).            *)
(*                                                                         *)
(* One draft, the settings document, and the remote marketplace account    *)
(* (inventory items, offers, listings, locations) are the state.  Every    *)
(* handler is a sequence of steps, one step per awaited remote call: the   *)
(* handler's position is inv[p].pc, and the response of the remote call is *)
(* a nondeterministic input of the step.                                   *)
(***************************************************************************)
EXTENDS Integers, Sequences, FiniteSets, TLC

(***************************************************************************)
(* Bounds of the model.                                                    *)
(***************************************************************************)
MaxReq == 2          \* longest list of marketplace ids in one request
MaxOps == 2          \* handler invocations in one behaviour
MaxFaults == 3       \* remote responses other than the expected one
MaxOfferIds == 2     \* offer ids the remote account hands out
MaxListingIds == 2   \* listing ids the remote account hands out
MaxRetries == 3      \* largest max_retries retry_with_backoff is run with
MaxClock == 14       \* hours the clock of the exchange-rate cache runs

(***************************************************************************)
(* Program constants.                                                      *)
(***************************************************************************)
PublishMaxRetries == 3   \* max_retries=3 of the publishOffer call

NoId == 0                \* Python None for an offer id / listing id
NoUrl == <<>>            \* Python None for a listing URL
NoKey == ""              \* Python None / "" for a policy id or location key

\* keys of MARKETPLACE_CONFIG
MARKETPLACE_CONFIG == {"EBAY_US", "EBAY_DE", "EBAY_ES", "EBAY_AU"}

\* marketplace ids a request may name; EBAY_IT is not in MARKETPLACE_CONFIG
RequestIds == {"EBAY_US", "EBAY_DE", "EBAY_IT"}

Procs == {1, 2}          \* request tasks of the server

Range(s) == {s[k] : k \in DOMAIN s}

\* the request lists: non-empty, without repetition, at most MaxReq long
Requests ==
    {s \in UNION {[1..n -> RequestIds] : n \in 1..MaxReq} :
        \A a, b \in DOMAIN s : a # b => s[a] # s[b]}

(***************************************************************************)
(* ebay_config.py: the configuration resolver.                             *)
(***************************************************************************)
\* MARKETPLACE_CONFIG[m]["policies"] and ["merchant_location_key"]: all None
get_default_marketplace_config(marketplace_id) ==
    IF marketplace_id \in MARKETPLACE_CONFIG
    THEN [known |-> TRUE,
          fulfillment_policy_id |-> NoKey,
          payment_policy_id |-> NoKey,
          return_policy_id |-> NoKey,
          merchant_location_key |-> NoKey]
    ELSE [known |-> FALSE,
          fulfillment_policy_id |-> NoKey,
          payment_policy_id |-> NoKey,
          return_policy_id |-> NoKey,
          merchant_location_key |-> NoKey]

\* db_settings["marketplaces"] is a function from some marketplace ids to
\* override records; a non-empty override field replaces the default. This
\* is the call on the catalog as compiled in; the handlers below run with
\* one settings document throughout, under which the policy ids a call
\* leaves in the catalog (see catalog_after) are the ones the next call
\* would merge again.
get_marketplace_config(marketplace_id, db_settings) ==
    LET config == get_default_marketplace_config(marketplace_id)
    IN  IF ~config.known THEN config
        ELSE IF marketplace_id \notin DOMAIN db_settings THEN config
        ELSE LET mp == db_settings[marketplace_id]
                 Over(f) == IF mp[f] # NoKey THEN mp[f] ELSE config[f]
             IN  [known |-> TRUE,
                  fulfillment_policy_id |-> Over("fulfillment_policy_id"),
                  payment_policy_id |-> Over("payment_policy_id"),
                  return_policy_id |-> Over("return_policy_id"),
                  merchant_location_key |-> Over("merchant_location_key")]

\* a mutant of the validation: the return policy is not checked
validate_skips_return_policy(marketplace_id, config) ==
    IF ~config.known THEN << <<"Unknown marketplace", marketplace_id>> >>
    ELSE (IF config.fulfillment_policy_id = NoKey
          THEN << <<"fulfillment_policy_id", marketplace_id>> >> ELSE <<>>)
      \o (IF config.payment_policy_id = NoKey
          THEN << <<"payment_policy_id", marketplace_id>> >> ELSE <<>>)
      \o (IF config.merchant_location_key = NoKey
          THEN << <<"merchant_location_key", marketplace_id>> >> ELSE <<>>)

\* the list of missing fields, empty when the profile is publish-ready
validate_marketplace_for_publish(marketplace_id, config) ==
    IF ~config.known THEN << <<"Unknown marketplace", marketplace_id>> >>
    ELSE (IF config.fulfillment_policy_id = NoKey
          THEN << <<"fulfillment_policy_id", marketplace_id>> >> ELSE <<>>)
      \o (IF config.payment_policy_id = NoKey
          THEN << <<"payment_policy_id", marketplace_id>> >> ELSE <<>>)
      \o (IF config.return_policy_id = NoKey
          THEN << <<"return_policy_id", marketplace_id>> >> ELSE <<>>)
      \o (IF config.merchant_location_key = NoKey
          THEN << <<"merchant_location_key", marketplace_id>> >> ELSE <<>>)

\* a mutant of the gate: only unknown marketplaces are collected
RECURSIVE missing_configs_unknown_only(_, _, _)
missing_configs_unknown_only(marketplaces, db_settings, k) ==
    IF k > Len(marketplaces) THEN <<>>
    ELSE LET mp_config == get_marketplace_config(marketplaces[k], db_settings)
         IN  (IF ~mp_config.known
              THEN << <<"Unknown marketplace", marketplaces[k]>> >>
              ELSE <<>>)
             \o missing_configs_unknown_only(marketplaces, db_settings, k + 1)

\* the loop "Validate marketplace configurations BEFORE proceeding":
\* the errors of the marketplaces k, k+1, ... of the request
RECURSIVE missing_configs(_, _, _)
missing_configs(marketplaces, db_settings, k) ==
    IF k > Len(marketplaces) THEN <<>>
    ELSE LET mp_config == get_marketplace_config(marketplaces[k], db_settings)
         IN  (IF ~mp_config.known
              THEN << <<"Unknown marketplace", marketplaces[k]>> >>
              ELSE validate_marketplace_for_publish(marketplaces[k], mp_config))
             \o missing_configs(marketplaces, db_settings, k + 1)

(***************************************************************************)
(* server.py: helpers of the publish handler.                              *)
(***************************************************************************)
\* mp_suffix = marketplace_id.replace("EBAY_", "").lower()
mp_suffix(marketplace_id) ==
    CASE marketplace_id = "EBAY_US" -> "us"
      [] marketplace_id = "EBAY_DE" -> "de"
      [] marketplace_id = "EBAY_ES" -> "es"
      [] marketplace_id = "EBAY_AU" -> "au"
      [] marketplace_id = "EBAY_IT" -> "it"
      [] OTHER -> "??"

\* unique_sku = f"{sku}-{mp_suffix}"
unique_sku(marketplace_id) == <<"SKU", "-", mp_suffix(marketplace_id)>>

\* sku = draft.get("sku"): the SKU of the draft itself
base_sku == <<"SKU">>

AllSkus == {unique_sku(m) : m \in RequestIds} \cup {base_sku}

\* f"https://www.{sandbox_prefix}{mp_domain}/itm/{listing_id}"
listing_url(marketplace_id, listing_id) ==
    <<"https://www.", marketplace_id, "/itm/", listing_id>>

\* characters of the category values of the model
Digits == {"0", "1", "2", "3", "4", "5", "6", "7", "8", "9"}

\* a mutant of the sanitisation: the value is used as it is
whole_category(category_id) == category_id

\* re.match(r'^(\d+)', str(category_id)): the leading run of digits
RECURSIVE leading_digits(_)
leading_digits(category_id) ==
    IF category_id = <<>> \/ Head(category_id) \notin Digits THEN <<>>
    ELSE <<Head(category_id)>> \o leading_digits(Tail(category_id))

\* CATEGORY_BY_ITEM_TYPE: "159043" everywhere but on EBAY_AU
CATEGORY_BY_ITEM_TYPE ==
    [item_type \in {"WHL", "TRK", "DCK", "APP", "MISC"} |->
        [marketplace_id \in {"EBAY_US", "EBAY_DE", "EBAY_ES", "EBAY_AU",
                             "EBAY_IT", "EBAY_UK"} |->
            IF marketplace_id = "EBAY_AU"
            THEN CASE item_type = "WHL" -> <<"3", "6", "6", "3", "2">>
                   [] item_type = "TRK" -> <<"3", "6", "6", "3", "1">>
                   [] item_type = "DCK" -> <<"1", "6", "2", "6", "3">>
                   [] item_type = "APP" -> <<"3", "6", "6", "4", "2">>
                   [] OTHER -> <<"1", "5", "9", "0", "4", "3">>
            ELSE <<"1", "5", "9", "0", "4", "3">>]]

\* CATEGORY_BY_ITEM_TYPE.get(item_type, {}).get(marketplace_id, "16265")
get_category_for_item(item_type, marketplace_id) ==
    IF /\ item_type \in DOMAIN CATEGORY_BY_ITEM_TYPE
       /\ marketplace_id \in DOMAIN CATEGORY_BY_ITEM_TYPE[item_type]
    THEN CATEGORY_BY_ITEM_TYPE[item_type][marketplace_id]
    ELSE <<"1", "6", "2", "6", "5">>

\* the category id the taxonomy API suggests
SuggestedCategory == <<"6", "3", "6", "3", "2">>

\* Python None for a category id
NoCategory == <<>>

\* keys of MARKETPLACE_CATEGORY_TREE
MARKETPLACE_CATEGORY_TREE ==
    {"EBAY_US", "EBAY_DE", "EBAY_ES", "EBAY_AU", "EBAY_IT", "EBAY_UK"}

\* query = type_queries.get(item_type, "skateboard")
type_query(item_type) ==
    CASE item_type = "WHL" -> "skateboard wheels"
      [] item_type = "TRK" -> "skateboard trucks"
      [] item_type = "DCK" -> "skateboard deck"
      [] item_type = "APP" -> "skateboard clothing"
      [] item_type = "MISC" -> "skateboard accessories"
      [] OTHER -> "skateboard"

\* cache_key = f"{marketplace_id}:{query}"
cache_key(marketplace_id, query) == <<marketplace_id, ":", query>>

\* the answers of getCategorySuggestions: a list of suggestions (the first
\* with or without a categoryId), an empty list, a status other than 200,
\* an exception
TaxonomyResponses ==
    {[raised |-> FALSE, status_code |-> 200,
      suggestions |-> <<SuggestedCategory>>],
     [raised |-> FALSE, status_code |-> 200, suggestions |-> <<NoCategory>>],
     [raised |-> FALSE, status_code |-> 200, suggestions |-> <<>>],
     [raised |-> FALSE, status_code |-> 500, suggestions |-> <<>>],
     [raised |-> TRUE, status_code |-> 0, suggestions |-> <<>>]}

\* lines 166-177: the answer carries a first suggestion
has_suggestion(resp) ==
    ~resp.raised /\ resp.status_code = 200 /\ resp.suggestions # <<>>

\* lines 166-185: suggestions[0]["category"]["categoryId"], else None
category_suggestion(resp) ==
    IF has_suggestion(resp) THEN resp.suggestions[1] ELSE NoCategory

\* line 176: _category_cache[cache_key] = category_id
cache_with(cache, key, category_id) ==
    [k \in DOMAIN cache \cup {key} |->
        IF k = key THEN category_id ELSE cache[k]]

\* a mutant of the resolution: the suggestion is returned even when None
get_valid_category_unchecked(item_type, marketplace_id, suggested) ==
    suggested

\* lines 216-222: the suggestion when truthy, else the static table
get_valid_category_for_marketplace(item_type, marketplace_id, suggested) ==
    IF suggested # NoCategory THEN suggested
    ELSE get_category_for_item(item_type, marketplace_id)

\* draft.get("item_type", "MISC") of the draft the handlers work on
DraftItemType == "WHL"

\* one entry of results["marketplaces"]; kind names the branch that wrote it
Entry(success, kind, offer_id, listing_id, url, has_retries, retries) ==
    [success |-> success, kind |-> kind, offer_id |-> offer_id,
     listing_id |-> listing_id, listing_url |-> url,
     has_retries |-> has_retries, retries |-> retries]

FailedEntry(kind) == Entry(FALSE, kind, NoId, NoId, NoUrl, FALSE, 0)

\* a mutant of the recording of a result: failures are dropped
record_result_success_only(results, marketplace_id, entry) ==
    IF entry.success
    THEN [m \in DOMAIN results \cup {marketplace_id} |->
            IF m = marketplace_id THEN entry ELSE results[m]]
    ELSE results

\* results["marketplaces"][marketplace_id] = entry
record_result(results, marketplace_id, entry) ==
    [m \in DOMAIN results \cup {marketplace_id} |->
        IF m = marketplace_id THEN entry ELSE results[m]]

\* a mutant of the retry info: the attempt number is stored
retry_info_attempts(attempt_num) ==
    IF attempt_num > 1
    THEN [has_retries |-> TRUE, retries |-> attempt_num]
    ELSE [has_retries |-> FALSE, retries |-> 0]

\* if attempt_num > 1: result_data["retries"] = attempt_num - 1
retry_info(attempt_num) ==
    IF attempt_num > 1
    THEN [has_retries |-> TRUE, retries |-> attempt_num - 1]
    ELSE [has_retries |-> FALSE, retries |-> 0]

\* successful_marketplaces = [mp for mp, data in results if data["success"]]
successful_marketplaces(results) ==
    {m \in DOMAIN results : results[m].success}

\* a mutant of the listings map: every result gets an entry
marketplace_listings_of_all(results) ==
    [m \in DOMAIN results |->
        [sku |-> unique_sku(m),
         offer_id |-> results[m].offer_id,
         listing_id |-> results[m].listing_id,
         listing_url |-> results[m].listing_url]]

\* marketplace_listings = {mp: {sku, offer_id, listing_id, listing_url}}
\* for the successful results only
marketplace_listings_of(results) ==
    [m \in successful_marketplaces(results) |->
        [sku |-> unique_sku(m),
         offer_id |-> results[m].offer_id,
         listing_id |-> results[m].listing_id,
         listing_url |-> results[m].listing_url]]

\* a mutant of the status update: PUBLISHED needs every marketplace
status_after_publish_all(status, results) ==
    IF successful_marketplaces(results) = DOMAIN results
    THEN "PUBLISHED" ELSE status

\* if successful_marketplaces: update_data["status"] = "PUBLISHED"
status_after_publish(status, results) ==
    IF successful_marketplaces(results) # {} THEN "PUBLISHED" ELSE status

(***************************************************************************)
(* State.                                                                  *)
(***************************************************************************)
VARIABLES
    draft,           \* the draft document of db.drafts
    settings,        \* db.settings["marketplaces"]
    ebay,            \* the remote account: inventory, offers, locations
    category_cache,  \* _category_cache, keyed by marketplace
    inv,             \* inv[p]: the handler invocation of task p
    prev,            \* history: the publish call completed before this one
    ops,             \* history: the handler invocations started so far
    faults,          \* history: the unexpected remote responses so far
    exec,            \* the frame of retry_with_backoff run on its own
    fx,              \* exchange_rates.py: _rates_cache, _cache_timestamp, clock
    app              \* the last application of a function run on its own

vars == <<draft, settings, ebay, category_cache, inv, prev, ops, faults, exec,
          fx, app>>

EmptyMap == [m \in {} |-> 0]

NoOffer == [status |-> "NONE", offerId |-> NoId, listingId |-> NoId,
            marketplaceId |-> ""]

Idle ==
    [op |-> "idle", pc |-> "idle", req |-> <<>>, i |-> 0, target |-> "",
     results |-> EmptyMap, calls |-> {}, abort |-> "", attempt |-> 0,
     offer_id |-> NoId, existing_offer_id |-> NoId, category_id |-> <<>>,
     created_locations |-> {}, read_results |-> EmptyMap,
     read_listings |-> EmptyMap, read_status |-> "", failed |-> {},
     publish_log |-> EmptyMap, ebay_errors |-> {}, answers |-> {},
     skus_to_delete |-> {}, current_sku |-> <<>>, faults_before |-> 0,
     overlaps |-> FALSE, resolved |-> EmptyMap, log |-> EmptyMap,
     remaining |-> {}, content_language |-> EmptyMap,
     location_log |-> <<>>, teardown_log |-> <<>>, read_frame |-> <<>>,
     inventory_status |-> EmptyMap]

\* retry_with_backoff is not running on its own
NoExec == [pc |-> "idle"]

\* the exchange-rate module is not in use
NoFx == [pc |-> "idle"]

\* no function is applied on its own
NoApp == [fn |-> "none"]

NoPrev == [valid |-> FALSE, req |-> <<>>, listings |-> EmptyMap,
           results |-> EmptyMap, lost |-> EmptyMap]

\* the settings documents the model starts from
FullPolicies(location_key) ==
    [fulfillment_policy_id |-> "F", payment_policy_id |-> "P",
     return_policy_id |-> "R", merchant_location_key |-> location_key]

SettingsChoices ==
    { [m \in {"EBAY_US", "EBAY_DE"} |->
          FullPolicies(IF m = "EBAY_US" THEN "loc_us" ELSE "loc_de")],
      [m \in {"EBAY_US", "EBAY_DE"} |-> FullPolicies("loc_it")],
      [m \in {"EBAY_US", "EBAY_DE"} |->
          IF m = "EBAY_US"
          THEN [FullPolicies("loc_it") EXCEPT !.return_policy_id = NoKey]
          ELSE FullPolicies("loc_it")],
      [m \in {"EBAY_DE"} |-> FullPolicies("loc_de")],
      [m \in {"EBAY_US", "EBAY_DE"} |->
          IF m = "EBAY_DE"
          THEN [FullPolicies("loc_it") EXCEPT !.merchant_location_key = NoKey]
          ELSE FullPolicies("loc_it")] }

\* the category_by_marketplace maps the model starts from
CategoryChoices ==
    { EmptyMap,
      [m \in {"EBAY_US", "EBAY_DE"} |->
          IF m = "EBAY_US" THEN <<"6", "3", " ", "W">> ELSE <<"W", "6">>] }

\* the drafts the model starts from: (has title, has image)
DraftChoices == {<<TRUE, TRUE>>, <<FALSE, TRUE>>, <<TRUE, FALSE>>}

NewDraft(has_title, has_image, categories) ==
    [exists |-> TRUE, title |-> has_title, image_urls |-> has_image,
     status |-> "DRAFT", listing_id |-> NoId, offer_id |-> NoId,
     category_by_marketplace |-> categories,
     marketplace_listings |-> EmptyMap,
     multi_marketplace_results |-> EmptyMap]

Init ==
    /\ \E d \in DraftChoices, c \in CategoryChoices :
          draft = NewDraft(d[1], d[2], c)
    /\ settings \in SettingsChoices
    /\ ebay = [inventory |-> {}, offers |-> [s \in AllSkus |-> NoOffer],
               locations |-> {}, next_offer |-> 1, next_listing |-> 1]
    /\ category_cache = EmptyMap
    /\ inv = [p \in Procs |-> Idle]
    /\ prev = NoPrev
    /\ ops = 0
    /\ faults = 0
    /\ exec = NoExec
    /\ fx = NoFx
    /\ app = NoApp

(***************************************************************************)
(* Steps shared by the handlers.                                           *)
(***************************************************************************)
\* a handler may start on task p when p runs no handler
Free(p) == inv[p].pc \in {"idle", "done", "aborted"}

\* the handler raises: an HTTPException, or an exception nothing catches
Abort(r, reason) == [r EXCEPT !.pc = "aborted", !.abort = reason]

\* one remote call of the handler, for marketplace m
Call(r, name, m) == [r EXCEPT !.calls = @ \cup {<<name, m>>}]

\* a remote call for marketplace m did not succeed
Fail(r, m) == [r EXCEPT !.failed = @ \cup {m}]

\* the remote answers resp; an answer outside expected uses the fault budget
Respond(resp, expected) ==
    /\ resp \notin expected => faults < MaxFaults
    /\ faults' = IF resp \in expected THEN faults ELSE faults + 1

\* the remote holds the offer offer_id under the SKU
HoldsOffer(sku, offer_id) ==
    /\ ebay.offers[sku].status # "NONE"
    /\ ebay.offers[sku].offerId = offer_id

\* the marketplace of the current iteration
Cur(p) == inv[p].req[inv[p].i]

\* the loop of step 3 goes on to the next marketplace, or ends
NextMarketplace(r) ==
    IF r.i < Len(r.req)
    THEN [r EXCEPT !.i = @ + 1, !.pc = "category", !.attempt = 0,
                   !.offer_id = NoId, !.existing_offer_id = NoId,
                   !.category_id = <<>>]
    ELSE [r EXCEPT !.pc = "write", !.attempt = 0,
                   !.offer_id = NoId, !.existing_offer_id = NoId,
                   !.category_id = <<>>]

\* results["marketplaces"][m] = entry; continue
Conclude(r, m, entry) ==
    NextMarketplace([r EXCEPT !.results = record_result(@, m, entry)])

\* history: the publish call that returned on task p just before
LastPublish(p) ==
    IF inv[p].op = "publish" /\ inv[p].pc = "done"
    THEN [valid |-> TRUE, req |-> inv[p].req,
          listings |-> draft.marketplace_listings,
          results |-> inv[p].results, lost |-> EmptyMap]
    ELSE IF inv[p].op = "publish" /\ inv[p].pc = "aborted"
    THEN [NoPrev EXCEPT !.lost =
            [m \in {k \in DOMAIN inv[p].publish_log :
                        /\ inv[p].publish_log[k].last \in {"200", "204"}
                        /\ ebay.offers[unique_sku(k)].status = "PUBLISHED"}
                |-> ebay.offers[unique_sku(m)].listingId]]
    ELSE NoPrev

\* history: the remote call step of marketplace m, its answer, the offer id
\* it carried or returned and the categoryId of its payload
Log(r, m, step, resp, offer_id, category_id) ==
    [r EXCEPT !.log =
        [k \in DOMAIN r.log \cup {m} |->
            IF k = m
            THEN Append(IF m \in DOMAIN r.log THEN r.log[m] ELSE <<>>,
                        [step |-> step, resp |-> resp, offer_id |-> offer_id,
                         categoryId |-> category_id])
            ELSE r.log[k]]]

(***************************************************************************)
(* publish_draft_multi_marketplace                                         *)
(***************************************************************************)
\* a mutant of the global precondition: the images are not looked at
precondition_error_no_images(d) ==
    IF ~d.exists THEN "not_found"
    ELSE IF ~d.title THEN "validation"
    ELSE ""

\* lines 4397-4408: 404 without the draft, 400 without a title or without
\* an image, "" when the draft may be published
precondition_error(d) ==
    IF ~d.exists THEN "not_found"
    ELSE IF ~d.title \/ ~d.image_urls THEN "validation"
    ELSE ""

\* history: the fields of the draft document other than status,
\* marketplace_listings and multi_marketplace_results
frame_of(d) ==
    [title |-> d.title, image_urls |-> d.image_urls,
     category_by_marketplace |-> d.category_by_marketplace,
     listing_id |-> d.listing_id, offer_id |-> d.offer_id]

\* lines 4396-4434: the draft is read, the global precondition and the
\* configuration of every requested marketplace are checked
PublishStart(p, marketplaces) ==
    /\ Free(p)
    /\ ops < MaxOps
    /\ ops' = ops + 1
    /\ LET r == [Idle EXCEPT !.op = "publish", !.req = marketplaces,
                             !.read_frame = frame_of(draft),
                             !.overlaps = \E q \in Procs \ {p} : ~Free(q),
                             !.read_results = draft.multi_marketplace_results,
                             !.read_listings = draft.marketplace_listings,
                             !.read_status = draft.status]
       IN  inv' = [inv EXCEPT ![p] =
                IF precondition_error(draft) # ""
                THEN Abort(r, precondition_error(draft))
                ELSE IF missing_configs(marketplaces, settings, 1) # <<>>
                     THEN Abort(r, "config")
                ELSE [r EXCEPT !.pc = "token"]]
    /\ prev' = LastPublish(p)
    /\ UNCHANGED <<draft, settings, ebay, category_cache, faults, exec,
                   fx, app>>

\* lines 4436-4439: get_ebay_access_token()
PublishToken(p) ==
    /\ inv[p].op = "publish" /\ inv[p].pc = "token"
    /\ \E ok \in BOOLEAN :
          /\ Respond(ok, {TRUE})
          /\ inv' = [inv EXCEPT ![p] =
                    IF ok
                    THEN [Call(@, "token", "") EXCEPT !.pc = "inventory", !.i = 1]
                    ELSE Abort(Call(@, "token", ""), "token")]
    /\ UNCHANGED <<draft, settings, ebay, category_cache, prev, ops, exec,
                   fx, app>>

\* the loop of step 1 or step 2 goes on, or the next loop starts
NextIn(r, next_pc) ==
    IF r.i < Len(r.req) THEN [r EXCEPT !.i = @ + 1]
    ELSE [r EXCEPT !.pc = next_pc, !.i = 1]

\* history: the answer to the inventory upsert of marketplace m
InventoryAnswered(r, m, resp) ==
    [r EXCEPT !.inventory_status =
        [k \in DOMAIN @ \cup {m} |-> IF k = m THEN resp ELSE @[k]]]

\* lines 4533-4590: createOrReplaceInventoryItem for the scoped SKU; a
\* status other than 200/204 is logged only, a timeout is not caught
PublishInventory(p) ==
    /\ inv[p].op = "publish" /\ inv[p].pc = "inventory"
    /\ LET m == Cur(p)
       IN  \E resp \in {"ok", "error", "timeout"} :
           LET r == InventoryAnswered(Call(inv[p], "inventory", m), m, resp)
           IN
              /\ Respond(resp, {"ok"})
              /\ inv' = [inv EXCEPT ![p] =
                    CASE resp = "ok" -> NextIn(r, "location")
                      [] resp = "error" -> NextIn(Fail(r, m), "location")
                      [] OTHER -> Abort(Fail(r, m), "timeout")]
              /\ ebay' = IF resp = "ok"
                         THEN [ebay EXCEPT !.inventory = @ \cup {unique_sku(m)}]
                         ELSE ebay
    /\ UNCHANGED <<draft, settings, category_cache, prev, ops, exec,
                   fx, app>>

\* mp_config.get("merchant_location_key", ...)
location_key_of(m) == get_marketplace_config(m, settings).merchant_location_key

\* history: a call about the location key, and its answer
LocationLogged(r, step, key, resp) ==
    [r EXCEPT !.location_log =
        Append(@, [step |-> step, key |-> key, resp |-> resp])]

\* a mutant of the location loop: no key counts as handled
location_handled_never(key, created_locations) == FALSE

\* line 4606: location_key in created_locations
location_handled(key, created_locations) == key \in created_locations

\* lines 4602-4616: the location of the marketplace is looked up, unless
\* its key was handled for an earlier marketplace
PublishLocationCheck(p) ==
    /\ inv[p].op = "publish" /\ inv[p].pc = "location"
    /\ LET m == Cur(p)
           key == location_key_of(m)
       IN  IF ~get_marketplace_config(m, settings).known
           THEN /\ inv' = [inv EXCEPT ![p] = Abort(@, "crash")]
                /\ UNCHANGED faults
           ELSE IF location_handled(key, inv[p].created_locations)
           THEN /\ inv' = [inv EXCEPT ![p] = NextIn(@, "category")]
                /\ UNCHANGED faults
           ELSE \E resp \in {"200", "error", "timeout"} :
                   LET r == LocationLogged(Call(inv[p], "get_location", m),
                                           "get_location", key, resp)
                   IN
                     /\ resp = "200" => key \in ebay.locations
                     /\ Respond(resp, IF key \in ebay.locations
                                      THEN {"200"} ELSE {"error"})
                     /\ inv' = [inv EXCEPT ![p] =
                          CASE resp = "200" ->
                                 NextIn([r EXCEPT !.created_locations =
                                                    @ \cup {key}], "category")
                            [] resp = "error" -> [r EXCEPT !.pc = "location_create"]
                            [] OTHER -> Abort(Fail(r, m), "timeout")]
    /\ UNCHANGED <<draft, settings, ebay, category_cache, prev, ops, exec,
                   fx, app>>

\* lines 4617-4639: the location is created; the status is logged only
PublishLocationCreate(p) ==
    /\ inv[p].op = "publish" /\ inv[p].pc = "location_create"
    /\ LET m == Cur(p)
           key == location_key_of(m)
       IN  \E resp \in {"ok", "error", "timeout"} :
           LET r == LocationLogged(Call(inv[p], "create_location", m),
                                   "create_location", key, resp)
               added == [r EXCEPT !.created_locations = @ \cup {key},
                                  !.pc = "location"]
           IN
              /\ Respond(resp, {"ok"})
              /\ inv' = [inv EXCEPT ![p] =
                    CASE resp = "ok" -> NextIn(added, "category")
                      [] resp = "error" -> NextIn(added, "category")
                      [] OTHER -> Abort(Fail(r, m), "timeout")]
              /\ ebay' = IF resp = "ok"
                         THEN [ebay EXCEPT !.locations = @ \cup {key}]
                         ELSE ebay
    /\ UNCHANGED <<draft, settings, category_cache, prev, ops, exec,
                   fx, app>>

\* the three policy ids of the profile are all set (line 4707)
all_policies(config) ==
    /\ config.fulfillment_policy_id # NoKey
    /\ config.payment_policy_id # NoKey
    /\ config.return_policy_id # NoKey

\* lines 4646-4711: the profile, the category and the policies of the
\* marketplace; the taxonomy API is asked when the draft names no category
\* and the cache has none, and any failure there falls back to the table
PublishCategory(p) ==
    /\ inv[p].op = "publish" /\ inv[p].pc = "category"
    /\ LET m == Cur(p)
           mp_config == get_marketplace_config(m, settings)
           by_mp == draft.category_by_marketplace
           user_set == m \in DOMAIN by_mp /\ by_mp[m] # <<>>
           key == cache_key(m, type_query(DraftItemType))
           Resolved(q, category_id) ==
               [q EXCEPT !.resolved =
                   [k \in DOMAIN q.resolved \cup {m} |->
                       IF k = m THEN category_id ELSE q.resolved[k]]]
           Decide(q, category_id) ==
             LET r == Resolved(q, category_id)
             IN
               IF leading_digits(category_id) = <<>>
               THEN Conclude(r, m, FailedEntry("invalid_category"))
               ELSE IF ~all_policies(mp_config)
               THEN Conclude(r, m, FailedEntry("missing_policy"))
               ELSE [r EXCEPT !.pc = "list_offers",
                              !.category_id = leading_digits(category_id)]
       IN  IF ~mp_config.known
           THEN /\ inv' = [inv EXCEPT ![p] =
                            Conclude(@, m, FailedEntry("unknown_marketplace"))]
                /\ UNCHANGED <<category_cache, faults>>
           ELSE IF user_set
           THEN /\ inv' = [inv EXCEPT ![p] = Decide(@, by_mp[m])]
                /\ UNCHANGED <<category_cache, faults>>
           ELSE IF key \in DOMAIN category_cache
           THEN /\ inv' = [inv EXCEPT ![p] =
                        Decide(@, get_valid_category_for_marketplace(
                                      DraftItemType, m, category_cache[key]))]
                /\ UNCHANGED <<category_cache, faults>>
           ELSE \E suggested \in BOOLEAN :
                  /\ Respond(suggested, {TRUE})
                  /\ inv' = [inv EXCEPT ![p] =
                        Decide(Call(@, "taxonomy", m),
                               get_valid_category_for_marketplace(
                                   DraftItemType, m,
                                   IF suggested THEN SuggestedCategory
                                   ELSE NoCategory))]
                  /\ category_cache' =
                        IF suggested
                        THEN cache_with(category_cache, key, SuggestedCategory)
                        ELSE category_cache
    /\ UNCHANGED <<draft, settings, ebay, prev, ops, exec,
                   fx, app>>

\* lines 4811-4826: the listing the draft recorded for the marketplace
history_listing(r, m) ==
    IF m \in DOMAIN r.read_results THEN r.read_results[m].listing_id ELSE NoId

\* a mutant of the idempotency guard: a published offer is not recognised
already_published_ignored(found, offer) == FALSE

\* lines 4785-4790: the offer of the marketplace has a listingId
already_published(found, offer) == found /\ offer.listingId # NoId

\* lines 4774-4831: the offers of the scoped SKU are listed; an offer with
\* a listing id, or a listing id recorded in the draft, ends the iteration
\* with a success
PublishListOffers(p) ==
    /\ inv[p].op = "publish" /\ inv[p].pc = "list_offers"
    /\ LET m == Cur(p)
           offer == ebay.offers[unique_sku(m)]
           found == offer.status # "NONE" /\ offer.marketplaceId = m
           Listed(resp) ==
               Log(Call(inv[p], "list_offers", m), m, "list_offers", resp,
                   IF resp = "200" /\ found THEN offer.offerId ELSE NoId,
                   NoCategory)
           AfterList(q) ==
               IF history_listing(q, m) # NoId
               THEN Conclude(q, m,
                      Entry(TRUE, "skipped_history", q.read_results[m].offer_id,
                            history_listing(q, m),
                            listing_url(m, history_listing(q, m)), FALSE, 0))
               ELSE IF q.existing_offer_id # NoId
               THEN [q EXCEPT !.pc = "delete_offer"]
               ELSE [q EXCEPT !.pc = "create_offer"]
       IN  \E resp \in {"200", "error", "timeout"} :
            /\ Respond(resp, {"200"})
            /\ inv' = [inv EXCEPT ![p] =
                LET r == Listed(resp) IN
                CASE resp = "200" ->
                       IF already_published(found, offer)
                       THEN Conclude(r, m,
                              Entry(TRUE, "skipped_remote", offer.offerId,
                                    offer.listingId,
                                    listing_url(m, offer.listingId), FALSE, 0))
                       ELSE AfterList([r EXCEPT !.existing_offer_id =
                                         IF found THEN offer.offerId ELSE NoId])
                  [] resp = "error" -> AfterList(Fail(r, m))
                  [] OTHER -> Abort(Fail(r, m), "timeout")]
    /\ UNCHANGED <<draft, settings, ebay, category_cache, prev, ops, exec,
                   fx, app>>

\* a mutant of the reconciliation: a new offer is created whatever the
\* delete answered
step_after_delete_recreate(deleted) == "create_offer"

\* lines 4839-4846: after the delete, a new offer is created; after a
\* failed delete, the existing offer is updated
step_after_delete(deleted) ==
    IF deleted THEN "create_offer" ELSE "update_offer"

\* lines 4831-4841: the unpublished offer is deleted
PublishDeleteOffer(p) ==
    /\ inv[p].op = "publish" /\ inv[p].pc = "delete_offer"
    /\ LET m == Cur(p)
           offer == ebay.offers[unique_sku(m)]
       IN  \E resp \in {"ok", "error", "timeout"} :
            LET r == Log(Call(inv[p], "delete_offer", m), m, "delete_offer",
                         resp, inv[p].existing_offer_id, NoCategory)
            IN
              /\ Respond(resp, IF HoldsOffer(unique_sku(m), r.existing_offer_id)
                               THEN {"ok"} ELSE {"error"})
              /\ resp = "ok" => HoldsOffer(unique_sku(m), r.existing_offer_id)
              /\ inv' = [inv EXCEPT ![p] =
                    CASE resp = "ok" -> [r EXCEPT !.existing_offer_id = NoId,
                                                  !.pc = step_after_delete(TRUE)]
                      [] resp = "error" ->
                            [Fail(r, m) EXCEPT !.pc = step_after_delete(FALSE)]
                      [] OTHER -> Abort(Fail(r, m), "timeout")]
              /\ ebay' = IF resp = "ok"
                         THEN [ebay EXCEPT !.offers[unique_sku(m)] = NoOffer]
                         ELSE ebay
    /\ UNCHANGED <<draft, settings, category_cache, prev, ops, exec,
                   fx, app>>

\* lines 4842-4855, 4895-4900: the delete failed, the offer is updated with
\* the full payload; without an offer id the marketplace fails
PublishUpdateOffer(p) ==
    /\ inv[p].op = "publish" /\ inv[p].pc = "update_offer"
    /\ LET m == Cur(p)
           offer == ebay.offers[unique_sku(m)]
       IN  \E resp \in {"ok", "error", "timeout"} :
            LET r == Log(Call(inv[p], "update_offer", m), m, "update_offer",
                         resp, inv[p].existing_offer_id, inv[p].category_id)
            IN
              /\ Respond(resp, IF HoldsOffer(unique_sku(m), r.existing_offer_id)
                               THEN {"ok"} ELSE {"error"})
              /\ resp = "ok" => HoldsOffer(unique_sku(m), r.existing_offer_id)
              /\ inv' = [inv EXCEPT ![p] =
                    CASE resp = "ok" -> [r EXCEPT !.offer_id = r.existing_offer_id,
                                                  !.pc = "publish", !.attempt = 1]
                      [] resp = "error" ->
                            Conclude(Fail(r, m), m, FailedEntry("no_offer_id"))
                      [] OTHER -> Abort(Fail(r, m), "timeout")]
    /\ UNCHANGED <<draft, settings, ebay, category_cache, prev, ops, exec,
                   fx, app>>

\* lines 4857-4893: a new offer is created; "already exists" yields the id
\* of the existing offer
PublishCreateOffer(p) ==
    /\ inv[p].op = "publish" /\ inv[p].pc = "create_offer"
    /\ LET m == Cur(p)
           offer == ebay.offers[unique_sku(m)]
       IN  \E resp \in {"201", "exists", "error", "timeout"} :
            LET r == Log(Call(inv[p], "create_offer", m), m, "create_offer",
                         resp,
                         CASE resp = "201" -> ebay.next_offer
                           [] resp = "exists" -> offer.offerId
                           [] OTHER -> NoId,
                         inv[p].category_id)
            IN
              /\ Respond(resp, {"201", "exists"})
              /\ resp = "201" => offer.status = "NONE" /\ ebay.next_offer <= MaxOfferIds
              /\ resp = "exists" => offer.status # "NONE"
              /\ inv' = [inv EXCEPT ![p] =
                    CASE resp = "201" -> [r EXCEPT !.offer_id = ebay.next_offer,
                                                   !.pc = "publish", !.attempt = 1]
                      [] resp = "exists" -> [r EXCEPT !.offer_id = offer.offerId,
                                                      !.pc = "publish", !.attempt = 1]
                      [] resp = "error" ->
                            Conclude(Fail(r, m), m, FailedEntry("create_failed"))
                      [] OTHER -> Abort(Fail(r, m), "timeout")]
              /\ ebay' = IF resp = "201"
                         THEN [ebay EXCEPT
                                 !.offers[unique_sku(m)] =
                                    [status |-> "UNPUBLISHED",
                                     offerId |-> ebay.next_offer,
                                     listingId |-> NoId, marketplaceId |-> m],
                                 !.next_offer = @ + 1]
                         ELSE ebay
    /\ UNCHANGED <<draft, settings, category_cache, prev, ops, exec,
                   fx, app>>

(***************************************************************************)
(* retry_with_backoff                                                      *)
(***************************************************************************)
\* the responses of one attempt: a success with a body, a success without
\* one, HTTP 429 or 5xx, another status, a transport timeout
PublishResponses == {"200", "204", "retryable", "terminal", "timeout"}

\* a mutant of the loop bound: one attempt more than max_retries
retry_with_backoff_once_more(resp, attempt, max_retries) ==
    CASE resp = "retryable" -> IF attempt <= max_retries THEN "retry" ELSE "return"
      [] resp = "timeout" -> IF attempt <= max_retries THEN "retry" ELSE "raise"
      [] OTHER -> "return"

\* lines 246-307: what the loop does after attempt number attempt:
\* "retry" sleeps and goes on, "return" returns (response, attempt),
\* "raise" re-raises the timeout
retry_with_backoff(resp, attempt, max_retries) ==
    CASE resp = "retryable" -> IF attempt < max_retries THEN "retry" ELSE "return"
      [] resp = "timeout" -> IF attempt < max_retries THEN "retry" ELSE "raise"
      [] OTHER -> "return"

\* a mutant of the test of the publish response: a 429/5xx passes too
publish_succeeded_or_5xx(resp) == resp \in {"200", "204", "retryable"}

\* publish_response.status_code in [200, 204]
publish_succeeded(resp) == resp \in {"200", "204"}

\* lines 4911-4975: publishOffer through retry_with_backoff, and the result
\* entry of the marketplace
PublishOffer(p) ==
    /\ inv[p].op = "publish" /\ inv[p].pc = "publish"
    /\ LET m == Cur(p)
           attempt_num == inv[p].attempt
           offer == ebay.offers[unique_sku(m)]
           info == retry_info(attempt_num)
           Logged(q, resp) ==
               [q EXCEPT !.publish_log =
                   [k \in DOMAIN q.publish_log \cup {m} |->
                       IF k = m THEN [attempts |-> attempt_num, last |-> resp]
                       ELSE q.publish_log[k]]]
       IN  \E resp \in PublishResponses :
              LET r == IF attempt_num = 1
                       THEN Log(Call(inv[p], "publish_offer", m), m,
                                "publish_offer", "sent", inv[p].offer_id,
                                NoCategory)
                       ELSE Call(inv[p], "publish_offer", m)
                  success == resp \in {"200", "204"}   \* the remote published
                  listing_id == IF resp = "200" THEN ebay.next_listing ELSE NoId
                  todo == retry_with_backoff(resp, attempt_num, PublishMaxRetries)
              IN  /\ Respond(resp, IF /\ HoldsOffer(unique_sku(m), r.offer_id)
                                       /\ offer.status = "UNPUBLISHED"
                                    THEN {"200"} ELSE {"terminal"})
                  /\ success => /\ HoldsOffer(unique_sku(m), r.offer_id)
                                /\ offer.status = "UNPUBLISHED"
                                /\ ebay.next_listing <= MaxListingIds
                  /\ inv' = [inv EXCEPT ![p] =
                        CASE todo = "retry" -> [r EXCEPT !.attempt = @ + 1]
                          [] todo = "raise" -> Abort(Logged(Fail(r, m), resp), "timeout")
                          [] OTHER ->
                             IF publish_succeeded(resp)
                             THEN Conclude(Logged(r, resp), m,
                                    Entry(TRUE, "published", r.offer_id, listing_id,
                                          IF listing_id # NoId
                                          THEN listing_url(m, listing_id) ELSE NoUrl,
                                          info.has_retries, info.retries))
                             ELSE Conclude(Logged(Fail(r, m), resp), m,
                                    Entry(FALSE, "publish_failed", r.offer_id, NoId,
                                          NoUrl, info.has_retries, info.retries))]
                  /\ ebay' = IF success
                             THEN [ebay EXCEPT
                                     !.offers[unique_sku(m)].status = "PUBLISHED",
                                     !.offers[unique_sku(m)].listingId = ebay.next_listing,
                                     !.next_listing = @ + 1]
                             ELSE ebay
    /\ UNCHANGED <<draft, settings, category_cache, prev, ops, exec,
                   fx, app>>

\* first_success = results[successful_marketplaces[0]]: the first
\* successful marketplace in the order of the request
RECURSIVE first_success(_, _, _)
first_success(marketplaces, results, k) ==
    IF k > Len(marketplaces) THEN ""
    ELSE IF marketplaces[k] \in successful_marketplaces(results)
         THEN marketplaces[k]
         ELSE first_success(marketplaces, results, k + 1)

\* lines 4977-5017: the results are written to the draft and returned
PublishWrite(p) ==
    /\ inv[p].op = "publish" /\ inv[p].pc = "write"
    /\ LET results == inv[p].results
           first == first_success(inv[p].req, results, 1)
       IN  draft' =
             IF ~draft.exists THEN draft
             ELSE [draft EXCEPT
                     !.multi_marketplace_results = results,
                     !.status = status_after_publish(@, results),
                     !.listing_id = IF first # "" THEN results[first].listing_id ELSE @,
                     !.offer_id = IF first # "" THEN results[first].offer_id ELSE @,
                     !.marketplace_listings = marketplace_listings_of(results)]
    /\ inv' = [inv EXCEPT ![p].pc = "done"]
    /\ UNCHANGED <<settings, ebay, category_cache, prev, ops, faults, exec,
                   fx, app>>

(***************************************************************************)
(* delete_draft_marketplace                                                *)
(***************************************************************************)
\* lines 1429-1441: the draft is read; the marketplace must be listed
UnpublishStart(p, marketplace_id) ==
    /\ Free(p)
    /\ ops < MaxOps
    /\ ops' = ops + 1
    /\ LET r == [Idle EXCEPT !.op = "unpublish", !.target = marketplace_id,
                             !.read_frame = frame_of(draft),
                             !.faults_before = faults,
                             !.read_results = draft.multi_marketplace_results,
                             !.read_listings = draft.marketplace_listings,
                             !.read_status = draft.status]
       IN  inv' = [inv EXCEPT ![p] =
                IF ~draft.exists THEN Abort(r, "not_found")
                ELSE IF marketplace_id \notin DOMAIN draft.marketplace_listings
                     THEN Abort(r, "not_found")
                ELSE [r EXCEPT !.pc = "u_token"]]
    /\ prev' = NoPrev
    /\ UNCHANGED <<draft, settings, ebay, category_cache, faults, exec,
                   fx, app>>

\* a mutant of the except clauses: the exception leaves the handler
Caught_reraised(r, what) == Abort(r, what)

\* an exception inside the try block: collected, the local update follows
Caught(r, what) ==
    [r EXCEPT !.ebay_errors = @ \cup {what},
              !.pc = IF r.op = "delete" THEN "d_write" ELSE "u_write"]

\* history: the answer resp of the remote to the call name
Answer(r, name, resp) == [r EXCEPT !.answers = @ \cup {<<name, resp>>}]

\* a mutant of the collection: every status other than 200/204 is appended
collect_every_status(errors, name, resp) ==
    IF resp = "error" THEN errors \cup {"withdraw_failed"} ELSE errors

\* lines 1476-1508: of the statuses other than 200/204 only the one of the
\* withdraw call is appended to ebay_errors, the others are logged
collect_status(errors, name, resp) ==
    IF name = "withdraw" /\ resp = "error"
    THEN errors \cup {"withdraw_failed"}
    ELSE errors

\* the SKU the teardown is working on: mp_sku, or current_sku of the loop
sku_in_hand(r) ==
    IF r.op = "delete" THEN r.current_sku
    ELSE r.read_listings[r.target].sku

\* history: the teardown call name on the SKU, its answer, and for a
\* list-offers call answered 200 the status of the offer it listed
TeardownLogged(r, name, resp) ==
    [r EXCEPT !.teardown_log =
        Append(@, [step |-> name, sku |-> sku_in_hand(r), resp |-> resp,
                   listed |-> IF name = "list_offers" /\ resp = "200"
                              THEN ebay.offers[sku_in_hand(r)].status
                              ELSE ""])]

\* one remote call of the teardown has answered with a status
Answered(r, name, resp) ==
    [TeardownLogged(Answer(r, name, resp), name, resp) EXCEPT
        !.ebay_errors = collect_status(@, name, resp)]

\* a mutant of the status checks: a status other than 200/204 ends the
\* remote teardown
Tolerated_stops(r, m, pc) == Caught(Fail(r, m), "status")

\* lines 1354-1397, 1466-1508: a status other than 200/204 is logged and
\* the handler goes on to its next step
Tolerated(r, m, pc) == [Fail(r, m) EXCEPT !.pc = pc]

\* line 1448: get_ebay_access_token()
UnpublishToken(p) ==
    /\ inv[p].op = "unpublish" /\ inv[p].pc = "u_token"
    /\ \E ok \in BOOLEAN :
          /\ Respond(ok, {TRUE})
          /\ inv' = [inv EXCEPT ![p] =
                    IF ok
                    THEN [Answer(Call(@, "token", ""), "token", "ok")
                             EXCEPT !.pc = "u_list"]
                    ELSE Caught(Answer(Call(@, "token", ""), "token", "error"),
                                "not_connected")]
    /\ UNCHANGED <<draft, settings, ebay, category_cache, prev, ops, exec,
                   fx, app>>

\* mp_sku = marketplace_listings[marketplace_id]["sku"]
target_sku(r) == r.read_listings[r.target].sku

\* lines 1460-1472: the offers of the SKU are listed
UnpublishListOffers(p) ==
    /\ inv[p].op = "unpublish" /\ inv[p].pc = "u_list"
    /\ \E resp \in {"200", "error", "timeout"} :
         LET r == Answered(Call(inv[p], "list_offers", inv[p].target),
                           "list_offers", resp)
             offer == ebay.offers[target_sku(r)]
         IN /\ Respond(resp, IF offer.status = "NONE" THEN {"200", "error"}
                             ELSE {"200"})
            /\ inv' = [inv EXCEPT ![p] =
                CASE resp = "200" ->
                       IF offer.status = "NONE" THEN [r EXCEPT !.pc = "u_delete_inv"]
                       ELSE [r EXCEPT !.existing_offer_id = offer.offerId,
                                      !.pc = IF offer.status = "PUBLISHED"
                                             THEN "u_withdraw"
                                             ELSE "u_delete_offer"]
                  [] resp = "error" -> Tolerated(r, r.target, "u_delete_inv")
                  [] OTHER -> Caught(Fail(r, r.target), "exception")]
    /\ UNCHANGED <<draft, settings, ebay, category_cache, prev, ops, exec,
                   fx, app>>

\* lines 1474-1486: a published offer is withdrawn
UnpublishWithdraw(p) ==
    /\ inv[p].op = "unpublish" /\ inv[p].pc = "u_withdraw"
    /\ \E resp \in {"ok", "error", "timeout"} :
           LET r == Answered(Call(inv[p], "withdraw", inv[p].target),
                             "withdraw", resp)
               sku == target_sku(r)
               offer == ebay.offers[sku]
           IN /\ Respond(resp, {"ok"})
              /\ resp = "ok" => /\ offer.status = "PUBLISHED"
                                /\ offer.offerId = r.existing_offer_id
              /\ inv' = [inv EXCEPT ![p] =
                    CASE resp = "ok" -> [r EXCEPT !.pc = "u_delete_offer"]
                      [] resp = "error" ->
                           Tolerated(r, r.target, "u_delete_offer")
                      [] OTHER -> Caught(Fail(r, r.target), "exception")]
              /\ ebay' = IF resp = "ok"
                         THEN [ebay EXCEPT !.offers[sku].status = "UNPUBLISHED",
                                           !.offers[sku].listingId = NoId]
                         ELSE ebay
    /\ UNCHANGED <<draft, settings, category_cache, prev, ops, exec,
                   fx, app>>

\* lines 1488-1497: the offer is deleted; a failure is logged only
UnpublishDeleteOffer(p) ==
    /\ inv[p].op = "unpublish" /\ inv[p].pc = "u_delete_offer"
    /\ \E resp \in {"ok", "error", "timeout"} :
           LET r == Answered(Call(inv[p], "delete_offer", inv[p].target),
                             "delete_offer", resp)
               sku == target_sku(r)
               offer == ebay.offers[sku]
           IN /\ Respond(resp, {"ok"})
              /\ resp = "ok" => /\ offer.status # "NONE"
                                /\ offer.offerId = r.existing_offer_id
              /\ inv' = [inv EXCEPT ![p] =
                    CASE resp = "ok" -> [r EXCEPT !.pc = "u_delete_inv"]
                      [] resp = "error" -> Tolerated(r, r.target, "u_delete_inv")
                      [] OTHER -> Caught(Fail(r, r.target), "exception")]
              /\ ebay' = IF resp = "ok"
                         THEN [ebay EXCEPT !.offers[sku] = NoOffer]
                         ELSE ebay
    /\ UNCHANGED <<draft, settings, category_cache, prev, ops, exec,
                   fx, app>>

\* lines 1499-1508: the inventory item of the SKU is deleted, and with it
\* the remote drops the offers of the SKU; a failure is logged only. The
\* remote answers not-found ("error") for an item it does not hold
UnpublishDeleteInventory(p) ==
    /\ inv[p].op = "unpublish" /\ inv[p].pc = "u_delete_inv"
    /\ \E resp \in {"ok", "error", "timeout"} :
           LET r == Answered(Call(inv[p], "delete_inventory", inv[p].target),
                             "delete_inventory", resp)
               sku == target_sku(r)
           IN /\ Respond(resp, IF sku \in ebay.inventory THEN {"ok"}
                               ELSE {"error"})
              /\ resp = "ok" => sku \in ebay.inventory
              /\ inv' = [inv EXCEPT ![p] =
                    CASE resp = "ok" -> [r EXCEPT !.pc = "u_write"]
                      [] resp = "error" -> Tolerated(r, r.target, "u_write")
                      [] OTHER -> Caught(Fail(r, r.target), "exception")]
              /\ ebay' = IF resp = "ok"
                         THEN [ebay EXCEPT !.inventory = @ \ {sku},
                                           !.offers[sku] = NoOffer]
                         ELSE ebay
    /\ UNCHANGED <<draft, settings, category_cache, prev, ops, exec,
                   fx, app>>

\* the map without the key k
Without(f, k) == [x \in DOMAIN f \ {k} |-> f[x]]

\* lines 1517-1535: the marketplace is removed from the two maps read at
\* the start, and the draft goes back to DRAFT when no listing is left
UnpublishWrite(p) ==
    /\ inv[p].op = "unpublish" /\ inv[p].pc = "u_write"
    /\ LET r == inv[p]
           listings == Without(r.read_listings, r.target)
           multi_results == Without(r.read_results, r.target)
       IN  draft' =
             IF ~draft.exists THEN draft
             ELSE [draft EXCEPT
                     !.marketplace_listings = listings,
                     !.multi_marketplace_results = multi_results,
                     !.status = IF listings = EmptyMap THEN "DRAFT" ELSE @,
                     !.listing_id = IF listings = EmptyMap THEN NoId ELSE @,
                     !.offer_id = IF listings = EmptyMap THEN NoId ELSE @]
    /\ inv' = [inv EXCEPT ![p].pc = "done"]
    /\ UNCHANGED <<settings, ebay, category_cache, prev, ops, faults, exec,
                   fx, app>>

(***************************************************************************)
(* delete_draft                                                            *)
(***************************************************************************)
\* the draft document is gone from db.drafts
DeletedDraft ==
    [NewDraft(FALSE, FALSE, EmptyMap) EXCEPT !.exists = FALSE, !.status = ""]

\* lines 1330-1338: the base SKU and the SKU of every marketplace_listings
\* entry
skus_of(marketplace_listings) ==
    {base_sku} \cup
    {marketplace_listings[m].sku : m \in DOMAIN marketplace_listings}

\* history: the marketplace a SKU is scoped to, "" for the base SKU
marketplace_of(sku) ==
    IF sku = base_sku THEN ""
    ELSE CHOOSE m \in RequestIds : unique_sku(m) = sku

\* lines 1301-1314: the draft is read; the remote teardown is entered when
\* the draft has a listing id, a result map or a listing map
DeleteStart(p) ==
    /\ Free(p)
    /\ ops < MaxOps
    /\ ops' = ops + 1
    /\ LET r == [Idle EXCEPT !.op = "delete",
                             !.faults_before = faults,
                             !.read_results = draft.multi_marketplace_results,
                             !.read_listings = draft.marketplace_listings,
                             !.read_status = draft.status]
       IN  inv' = [inv EXCEPT ![p] =
                IF ~draft.exists THEN Abort(r, "not_found")
                ELSE IF \/ draft.listing_id # NoId
                        \/ draft.multi_marketplace_results # EmptyMap
                        \/ draft.marketplace_listings # EmptyMap
                     THEN [r EXCEPT !.pc = "d_token",
                                    !.skus_to_delete =
                                        skus_of(draft.marketplace_listings)]
                ELSE [r EXCEPT !.pc = "d_write"]]
    /\ prev' = LastPublish(p)
    /\ UNCHANGED <<draft, settings, ebay, category_cache, faults, exec,
                   fx, app>>

\* line 1344: the SKUs the loop may take next; <<>> when none is left
NextSkus(r) == IF r.skus_to_delete = {} THEN {<<>>} ELSE r.skus_to_delete

\* line 1344: the loop over skus_to_delete takes the SKU next, or ends
TakeSku(r, next) ==
    IF next = <<>>
    THEN [r EXCEPT !.pc = "d_write", !.current_sku = <<>>,
                   !.existing_offer_id = NoId]
    ELSE [r EXCEPT !.pc = "d_list", !.current_sku = next,
                   !.skus_to_delete = @ \ {next},
                   !.existing_offer_id = NoId]

\* line 1318: get_ebay_access_token()
DeleteToken(p) ==
    /\ inv[p].op = "delete" /\ inv[p].pc = "d_token"
    /\ \E ok \in BOOLEAN, next \in NextSkus(inv[p]) :
          /\ Respond(ok, {TRUE})
          /\ inv' = [inv EXCEPT ![p] =
                    IF ok
                    THEN TakeSku(Answer(Call(@, "token", ""), "token", "ok"),
                                 next)
                    ELSE Caught(Answer(Call(@, "token", ""), "token", "error"),
                                "not_connected")]
    /\ UNCHANGED <<draft, settings, ebay, category_cache, prev, ops, exec,
                   fx, app>>

\* lines 1348-1361: the offers of the current SKU are listed
DeleteListOffers(p) ==
    /\ inv[p].op = "delete" /\ inv[p].pc = "d_list"
    /\ \E resp \in {"200", "error", "timeout"} :
         LET sku == inv[p].current_sku
             m == marketplace_of(sku)
             r == Answered(Call(inv[p], "list_offers", m), "list_offers", resp)
             offer == ebay.offers[sku]
         IN /\ Respond(resp, IF offer.status = "NONE" THEN {"200", "error"}
                             ELSE {"200"})
            /\ inv' = [inv EXCEPT ![p] =
                CASE resp = "200" ->
                       IF offer.status = "NONE" THEN [r EXCEPT !.pc = "d_delete_inv"]
                       ELSE [r EXCEPT !.existing_offer_id = offer.offerId,
                                      !.pc = IF offer.status = "PUBLISHED"
                                             THEN "d_withdraw"
                                             ELSE "d_delete_offer"]
                  [] resp = "error" -> Tolerated(r, m, "d_delete_inv")
                  [] OTHER -> Caught(Fail(r, m), "exception")]
    /\ UNCHANGED <<draft, settings, ebay, category_cache, prev, ops, exec,
                   fx, app>>

\* lines 1363-1375: a published offer is withdrawn
DeleteWithdraw(p) ==
    /\ inv[p].op = "delete" /\ inv[p].pc = "d_withdraw"
    /\ \E resp \in {"ok", "error", "timeout"} :
           LET sku == inv[p].current_sku
               m == marketplace_of(sku)
               r == Answered(Call(inv[p], "withdraw", m), "withdraw", resp)
               offer == ebay.offers[sku]
           IN /\ Respond(resp, {"ok"})
              /\ resp = "ok" => /\ offer.status = "PUBLISHED"
                                /\ offer.offerId = r.existing_offer_id
              /\ inv' = [inv EXCEPT ![p] =
                    CASE resp = "ok" -> [r EXCEPT !.pc = "d_delete_offer"]
                      [] resp = "error" -> Tolerated(r, m, "d_delete_offer")
                      [] OTHER -> Caught(Fail(r, m), "exception")]
              /\ ebay' = IF resp = "ok"
                         THEN [ebay EXCEPT !.offers[sku].status = "UNPUBLISHED",
                                           !.offers[sku].listingId = NoId]
                         ELSE ebay
    /\ UNCHANGED <<draft, settings, category_cache, prev, ops, exec,
                   fx, app>>

\* lines 1377-1386: the offer is deleted; a failure is logged only
DeleteOffer(p) ==
    /\ inv[p].op = "delete" /\ inv[p].pc = "d_delete_offer"
    /\ \E resp \in {"ok", "error", "timeout"} :
           LET sku == inv[p].current_sku
               m == marketplace_of(sku)
               r == Answered(Call(inv[p], "delete_offer", m), "delete_offer", resp)
               offer == ebay.offers[sku]
           IN /\ Respond(resp, {"ok"})
              /\ resp = "ok" => /\ offer.status # "NONE"
                                /\ offer.offerId = r.existing_offer_id
              /\ inv' = [inv EXCEPT ![p] =
                    CASE resp = "ok" -> [r EXCEPT !.pc = "d_delete_inv"]
                      [] resp = "error" -> Tolerated(r, m, "d_delete_inv")
                      [] OTHER -> Caught(Fail(r, m), "exception")]
              /\ ebay' = IF resp = "ok"
                         THEN [ebay EXCEPT !.offers[sku] = NoOffer]
                         ELSE ebay
    /\ UNCHANGED <<draft, settings, category_cache, prev, ops, exec,
                   fx, app>>

\* lines 1388-1397: the inventory item of the current SKU is deleted, and
\* with it the remote drops the offers of the SKU; a failure is logged
\* only; the loop goes on to the next SKU
DeleteInventory(p) ==
    /\ inv[p].op = "delete" /\ inv[p].pc = "d_delete_inv"
    /\ \E resp \in {"ok", "error", "timeout"}, next \in NextSkus(inv[p]) :
           LET sku == inv[p].current_sku
               m == marketplace_of(sku)
               r == Answered(Call(inv[p], "delete_inventory", m),
                             "delete_inventory", resp)
           IN /\ Respond(resp, IF sku \in ebay.inventory THEN {"ok"}
                               ELSE {"error"})
              /\ resp = "ok" => sku \in ebay.inventory
              /\ inv' = [inv EXCEPT ![p] =
                    CASE resp = "ok" -> TakeSku(r, next)
                      [] resp = "error" -> TakeSku(Fail(r, m), next)
                      [] OTHER -> Caught(Fail(r, m), "exception")]
              /\ ebay' = IF resp = "ok"
                         THEN [ebay EXCEPT !.inventory = @ \ {sku},
                                           !.offers[sku] = NoOffer]
                         ELSE ebay
    /\ UNCHANGED <<draft, settings, category_cache, prev, ops, exec,
                   fx, app>>

\* lines 1407-1409: db.drafts.delete_one; 404 when nothing was deleted
DeleteWrite(p) ==
    /\ inv[p].op = "delete" /\ inv[p].pc = "d_write"
    /\ inv' = [inv EXCEPT ![p] =
                IF draft.exists THEN [@ EXCEPT !.pc = "done"]
                ELSE Abort(@, "not_found")]
    /\ draft' = DeletedDraft
    /\ UNCHANGED <<settings, ebay, category_cache, prev, ops, faults, exec,
                   fx, app>>

(***************************************************************************)
(* republish_draft                                                         *)
(***************************************************************************)
\* MARKETPLACE_CONFIG[mp_id], the keys the republish handler may read:
\* the entries carry "language" and no "content_language"
marketplace_config_entry(mp_id) ==
    CASE mp_id = "EBAY_US" -> [language |-> "en-US"]
      [] mp_id = "EBAY_DE" -> [language |-> "de-DE"]
      [] mp_id = "EBAY_ES" -> [language |-> "es-ES"]
      [] mp_id = "EBAY_AU" -> [language |-> "en-AU"]
      [] OTHER -> EmptyMap

\* dict.get(key, default)
dict_get(dict, key, default) ==
    IF key \in DOMAIN dict THEN dict[key] ELSE default

\* line 1683: content_lang = mp_config.get("content_language", "en-US")
content_lang(mp_id) ==
    dict_get(marketplace_config_entry(mp_id), "content_language", "en-US")

\* a mutant of the checks of the handler: only the 404 is raised
republish_error_not_found_only(d) ==
    IF ~d.exists THEN "not_found" ELSE ""

\* lines 1645-1653: 404 without the draft, 400 when the draft is not
\* PUBLISHED, 400 when it has no marketplace_listings, "" otherwise
republish_error(d) ==
    IF ~d.exists THEN "not_found"
    ELSE IF d.status # "PUBLISHED" THEN "not_published"
    ELSE IF d.marketplace_listings = EmptyMap THEN "no_listings"
    ELSE ""

\* lines 1644-1658: the draft is read and checked
RepublishStart(p) ==
    /\ Free(p)
    /\ ops < MaxOps
    /\ ops' = ops + 1
    /\ LET r == [Idle EXCEPT !.op = "republish",
                             !.read_results = draft.multi_marketplace_results,
                             !.read_listings = draft.marketplace_listings,
                             !.read_status = draft.status]
       IN  inv' = [inv EXCEPT ![p] =
                IF republish_error(draft) # ""
                THEN Abort(r, republish_error(draft))
                ELSE [r EXCEPT !.pc = "r_token",
                               !.remaining = DOMAIN draft.marketplace_listings]]
    /\ prev' = LastPublish(p)
    /\ UNCHANGED <<draft, settings, ebay, category_cache, faults, exec,
                   fx, app>>

\* lines 1660-1661, 1736-1738: get_ebay_access_token(); an exception
\* becomes the HTTP 500 of the handler
RepublishToken(p) ==
    /\ inv[p].op = "republish" /\ inv[p].pc = "r_token"
    /\ \E ok \in BOOLEAN :
          /\ Respond(ok, {TRUE})
          /\ inv' = [inv EXCEPT ![p] =
                    IF ok
                    THEN [Call(@, "token", "") EXCEPT
                            !.pc = IF inv[p].remaining = {} THEN "r_write"
                                   ELSE "r_inventory"]
                    ELSE Abort(Call(@, "token", ""), "500")]
    /\ UNCHANGED <<draft, settings, ebay, category_cache, prev, ops, exec,
                   fx, app>>

\* lines 1674-1720: the inventory item of one listed marketplace is
\* replaced, with the Content-Language of content_lang; a status other
\* than 200/201/204 and an exception are recorded as failures
RepublishInventory(p) ==
    /\ inv[p].op = "republish" /\ inv[p].pc = "r_inventory"
    /\ \E mp_id \in inv[p].remaining, resp \in {"ok", "error", "timeout"} :
          LET r == Call(inv[p], "inventory", mp_id)
              mp_sku == inv[p].read_listings[mp_id].sku
              sent == [k \in DOMAIN r.content_language \cup {mp_id} |->
                         IF k = mp_id THEN content_lang(mp_id)
                         ELSE r.content_language[k]]
              results == [k \in DOMAIN r.results \cup {mp_id} |->
                            IF k = mp_id THEN [success |-> resp = "ok"]
                            ELSE r.results[k]]
              left == r.remaining \ {mp_id}
          IN  /\ Respond(resp, {"ok"})
              /\ inv' = [inv EXCEPT ![p] =
                    [(IF resp = "ok" THEN r ELSE Fail(r, mp_id)) EXCEPT
                        !.content_language = sent,
                        !.results = results,
                        !.remaining = left,
                        !.pc = IF left = {} THEN "r_write" ELSE "r_inventory"]]
              /\ ebay' = IF resp = "ok"
                         THEN [ebay EXCEPT !.inventory = @ \cup {mp_sku}]
                         ELSE ebay
    /\ UNCHANGED <<draft, settings, category_cache, prev, ops, exec,
                   fx, app>>

\* lines 1722-1734: $set of updated_at, a field the draft of the model
\* does not carry, and the results are returned
RepublishWrite(p) ==
    /\ inv[p].op = "republish" /\ inv[p].pc = "r_write"
    /\ inv' = [inv EXCEPT ![p].pc = "done"]
    /\ UNCHANGED <<draft, settings, ebay, category_cache, prev, ops, faults,
                   exec, fx, app>>

(***************************************************************************)
(* The seller's account outside the program.                               *)
(***************************************************************************)
\* the offer and the inventory item of a SKU are removed on eBay itself,
\* between two requests
RemoteDeletedOutOfBand(sku) ==
    /\ \A p \in Procs : Free(p)
    /\ sku \in ebay.inventory \/ ebay.offers[sku].status # "NONE"
    /\ faults < MaxFaults
    /\ faults' = faults + 1
    /\ ebay' = [ebay EXCEPT !.inventory = @ \ {sku}, !.offers[sku] = NoOffer]
    /\ UNCHANGED <<draft, settings, category_cache, inv, prev, ops, exec,
                   fx, app>>

(***************************************************************************)
(* The requests of the model arrive one after the other, on task 1.        *)
(***************************************************************************)
Next ==
    \/ \E marketplaces \in Requests : PublishStart(1, marketplaces)
    \/ PublishToken(1)
    \/ PublishInventory(1)
    \/ PublishLocationCheck(1)
    \/ PublishLocationCreate(1)
    \/ PublishCategory(1)
    \/ PublishListOffers(1)
    \/ PublishDeleteOffer(1)
    \/ PublishUpdateOffer(1)
    \/ PublishCreateOffer(1)
    \/ PublishOffer(1)
    \/ PublishWrite(1)
    \/ \E marketplace_id \in RequestIds : UnpublishStart(1, marketplace_id)
    \/ UnpublishToken(1)
    \/ UnpublishListOffers(1)
    \/ UnpublishWithdraw(1)
    \/ UnpublishDeleteOffer(1)
    \/ UnpublishDeleteInventory(1)
    \/ UnpublishWrite(1)
    \/ DeleteStart(1)
    \/ DeleteToken(1)
    \/ DeleteListOffers(1)
    \/ DeleteWithdraw(1)
    \/ DeleteOffer(1)
    \/ DeleteInventory(1)
    \/ DeleteWrite(1)
    \/ RepublishStart(1)
    \/ RepublishToken(1)
    \/ RepublishInventory(1)
    \/ RepublishWrite(1)
    \/ \E sku \in AllSkus : RemoteDeletedOutOfBand(sku)

Spec == Init /\ [][Next]_vars

(***************************************************************************)
(* Two publish requests for the same draft, on two tasks of the event      *)
(* loop: a task yields at every awaited call, so the steps interleave.     *)
(***************************************************************************)
\* the marketplaces of the concurrent requests
ConcMarketplaces == {"EBAY_US", "EBAY_DE"}

InitConc ==
    /\ draft = NewDraft(TRUE, TRUE, EmptyMap)
    /\ settings = [m \in ConcMarketplaces |->
                     FullPolicies(IF m = "EBAY_US" THEN "loc_us" ELSE "loc_de")]
    /\ ebay = [inventory |-> {}, offers |-> [s \in AllSkus |-> NoOffer],
               locations |-> {}, next_offer |-> 1, next_listing |-> 1]
    /\ category_cache = EmptyMap
    /\ inv = [p \in Procs |-> Idle]
    /\ prev = NoPrev
    /\ ops = 0
    /\ faults = 0
    /\ exec = NoExec
    /\ fx = NoFx
    /\ app = NoApp

NextConc ==
    \E p \in Procs :
        \/ \E m \in ConcMarketplaces : PublishStart(p, <<m>>)
        \/ PublishToken(p)
        \/ PublishInventory(p)
        \/ PublishLocationCheck(p)
        \/ PublishLocationCreate(p)
        \/ PublishCategory(p)
        \/ PublishListOffers(p)
        \/ PublishDeleteOffer(p)
        \/ PublishUpdateOffer(p)
        \/ PublishCreateOffer(p)
        \/ PublishOffer(p)
        \/ PublishWrite(p)

SpecConc == InitConc /\ [][NextConc]_vars

(***************************************************************************)
(* retry_with_backoff run on its own: one request per step, with the       *)
(* delays it sleeps. Delays are in milliseconds, random.random() in        *)
(* thousandths; the values drawn make every product exact.                 *)
(***************************************************************************)
\* max(0.5, ...): the floor of every delay
MinDelay == 500

\* base_delay: a tenth of a second, the default 1.0, and the 2.0 of the
\* publish step
BaseDelays == {100, 1000, 2000}

\* the values of random.random() the model draws
RandomChoices == {0, 500, 900}

\* the Retry-After header of a response: absent, an HTTP date, or seconds
NoRetryAfter == [present |-> FALSE, numeric |-> FALSE, value |-> 0]

RetryAfterChoices ==
    { NoRetryAfter,
      [present |-> TRUE, numeric |-> FALSE, value |-> 0],
      [present |-> TRUE, numeric |-> TRUE, value |-> 0],
      [present |-> TRUE, numeric |-> TRUE, value |-> 10000] }

\* what one attempt ends with: a response, or httpx.TimeoutException
Outcomes ==
    [kind : {"response"}, status : {200, 204, 400, 500},
     retry_after : {NoRetryAfter}]
    \cup [kind : {"response"}, status : {429}, retry_after : RetryAfterChoices]
    \cup [kind : {"timeout"}, status : {0}, retry_after : {NoRetryAfter}]

\* a mutant of the retry test: every status from 400 on is retried
response_class_from_400(outcome) ==
    CASE outcome.kind = "timeout" -> "timeout"
      [] outcome.status >= 400 -> "retryable"
      [] outcome.status = 200 -> "200"
      [] outcome.status = 204 -> "204"
      [] OTHER -> "terminal"

\* line 262: response.status_code == 429 or response.status_code >= 500
response_class(outcome) ==
    CASE outcome.kind = "timeout" -> "timeout"
      [] outcome.status = 429 \/ outcome.status >= 500 -> "retryable"
      [] outcome.status = 200 -> "200"
      [] outcome.status = 204 -> "204"
      [] OTHER -> "terminal"

\* lines 269-282, 298: the delay before the jitter
backoff_delay(outcome, attempt, base_delay) ==
    IF /\ outcome.kind = "response"
       /\ outcome.status = 429
       /\ outcome.retry_after.present
       /\ outcome.retry_after.numeric
    THEN outcome.retry_after.value
    ELSE base_delay * (2 ^ (attempt - 1))

\* a mutant of the jitter: half of the delay either way
with_jitter_half(delay, random) ==
    LET jitter == (delay * (2 * random - 1000)) \div 2000
    IN  IF delay + jitter > MinDelay THEN delay + jitter ELSE MinDelay

\* lines 285-286, 299-300: jitter = delay * 0.25 * (random * 2 - 1);
\* delay = max(0.5, delay + jitter)
with_jitter(delay, random) ==
    LET jitter == (delay * (2 * random - 1000)) \div 4000
    IN  IF delay + jitter > MinDelay THEN delay + jitter ELSE MinDelay

\* the call retry_with_backoff(max_retries=..., base_delay=...) has begun
ExecStarted(max_retries, base_delay) ==
    [pc |-> "request", max_retries |-> max_retries, base_delay |-> base_delay,
     attempt |-> 1, requests |-> 0, log |-> <<>>, attempt_number |-> 0]

InitExec ==
    /\ draft = NewDraft(TRUE, TRUE, EmptyMap)
    /\ settings = EmptyMap
    /\ ebay = [inventory |-> {}, offers |-> [s \in AllSkus |-> NoOffer],
               locations |-> {}, next_offer |-> 1, next_listing |-> 1]
    /\ category_cache = EmptyMap
    /\ inv = [p \in Procs |-> Idle]
    /\ prev = NoPrev
    /\ ops = 0
    /\ faults = 0
    /\ \E max_retries \in 1..MaxRetries, base_delay \in BaseDelays :
          exec = ExecStarted(max_retries, base_delay)
    /\ fx = NoFx
    /\ app = NoApp

\* lines 246-304: one turn of the loop: the request is sent, and the
\* function retries after a sleep, returns (response, attempt) or re-raises
ExecAttempt ==
    /\ exec.pc = "request"
    /\ \E outcome \in Outcomes, random \in RandomChoices :
          LET attempt == exec.attempt
              todo == retry_with_backoff(response_class(outcome), attempt,
                                         exec.max_retries)
              delay == with_jitter(backoff_delay(outcome, attempt,
                                                 exec.base_delay), random)
              Logged(slept) ==
                  Append(exec.log, [outcome |-> outcome, slept |-> slept])
          IN  exec' =
                CASE todo = "retry" ->
                       [exec EXCEPT !.requests = @ + 1, !.attempt = @ + 1,
                                    !.log = Logged(delay)]
                  [] todo = "raise" ->
                       [exec EXCEPT !.requests = @ + 1, !.pc = "raised",
                                    !.log = Logged(0)]
                  [] OTHER ->
                       [exec EXCEPT !.requests = @ + 1, !.pc = "returned",
                                    !.attempt_number = attempt,
                                    !.log = Logged(0)]
    /\ UNCHANGED <<draft, settings, ebay, category_cache, inv, prev, ops, faults,
                   fx, app>>

NextExec == ExecAttempt

SpecExec == InitExec /\ [][NextExec]_vars

\* the event loop resumes the coroutine after every request and sleep
FairSpecExec == SpecExec /\ WF_vars(ExecAttempt)

(***************************************************************************)
(* exchange_rates.py: the cached rates of the BCE feed, on their own.      *)
(* Time is counted in hours; a rate or an amount is a fraction <<n, d>>.   *)
(***************************************************************************)
CACHE_DURATION == 12     \* _CACHE_DURATION = timedelta(hours=12)

NoTimestamp == -1        \* _cache_timestamp = None

\* the float 1.0
One == <<1, 1>>

\* FALLBACK_RATES: USD 1.08, AUD 1.65, GBP 0.85
FALLBACK_RATES ==
    [c \in {"USD", "AUD", "GBP"} |->
        CASE c = "USD" -> <<108, 100>>
          [] c = "AUD" -> <<165, 100>>
          [] OTHER -> <<85, 100>>]

\* the <Cube currency=... rate=.../> elements of two days of the feed
FeedCubes ==
    { [c \in {"USD", "AUD", "GBP"} |->
          CASE c = "USD" -> <<11, 10>>
            [] c = "AUD" -> <<17, 10>>
            [] OTHER -> <<4, 5>>],
      [c \in {"USD", "GBP"} |->
          IF c = "USD" THEN <<6, 5>> ELSE <<9, 10>>] }

\* the answers to the GET of the feed: a document with rates, a document
\* without any, a status other than 200, and an exception (timeout,
\* connection error, a document that does not parse)
FeedResponses ==
    {[raised |-> FALSE, status_code |-> 200, cubes |-> c] : c \in FeedCubes}
    \cup {[raised |-> FALSE, status_code |-> 200, cubes |-> EmptyMap],
          [raised |-> FALSE, status_code |-> 503, cubes |-> EmptyMap],
          [raised |-> TRUE, status_code |-> 0, cubes |-> EmptyMap]}

\* no request was sent
NoFeed == [raised |-> FALSE, status_code |-> 0, cubes |-> EmptyMap]

\* no call of fetch_bce_rates yet
NoCall == [at |-> NoTimestamp]

\* a mutant of the cache check: a snapshot of any age is served
cache_valid_at_any_age(cache_timestamp, now) ==
    cache_timestamp # NoTimestamp

\* line 33: _cache_timestamp and (now - _cache_timestamp) < _CACHE_DURATION
cache_valid(cache_timestamp, now) ==
    /\ cache_timestamp # NoTimestamp
    /\ now - cache_timestamp < CACHE_DURATION

\* lines 50-57: rates = {"EUR": 1.0}, then rates[currency] = rate per cube
parsed_rates(cubes) == cubes @@ ("EUR" :> One)

\* a mutant of the fallback: the hardcoded table whatever the cache holds
rates_hardcoded(rates_cache) == FALLBACK_RATES @@ ("EUR" :> One)

\* lines 70-76: the previously cached rates, else {"EUR": 1.0,
\* **FALLBACK_RATES}
rates_after_failure(rates_cache) ==
    IF rates_cache # EmptyMap THEN rates_cache
    ELSE FALLBACK_RATES @@ ("EUR" :> One)

\* the module after import: empty cache, no timestamp
FxLoaded ==
    [pc |-> "ready", rates_cache |-> EmptyMap,
     cache_timestamp |-> NoTimestamp, now |-> 0, last |-> NoCall]

InitFx ==
    /\ draft = NewDraft(TRUE, TRUE, EmptyMap)
    /\ settings = EmptyMap
    /\ ebay = [inventory |-> {}, offers |-> [s \in AllSkus |-> NoOffer],
               locations |-> {}, next_offer |-> 1, next_listing |-> 1]
    /\ category_cache = EmptyMap
    /\ inv = [p \in Procs |-> Idle]
    /\ prev = NoPrev
    /\ ops = 0
    /\ faults = 0
    /\ exec = NoExec
    /\ fx = FxLoaded
    /\ app = NoApp

\* an hour passes
Tick ==
    /\ fx.pc \in {"ready", "tasks"}
    /\ fx.now < MaxClock
    /\ fx' = [fx EXCEPT !.now = @ + 1]
    /\ UNCHANGED <<draft, settings, ebay, category_cache, inv, prev, ops,
                   faults, exec, app>>

\* lines 28-76: one call of fetch_bce_rates
FetchBceRates ==
    /\ fx.pc = "ready"
    /\ LET hit == cache_valid(fx.cache_timestamp, fx.now)
       IN  \E feed \in IF hit THEN {NoFeed} ELSE FeedResponses :
             LET rates == parsed_rates(feed.cubes)
                 stored == /\ ~hit
                           /\ ~feed.raised
                           /\ feed.status_code = 200
                           /\ Cardinality(DOMAIN rates) > 1
                 returned == IF hit THEN fx.rates_cache
                             ELSE IF stored THEN rates
                             ELSE rates_after_failure(fx.rates_cache)
             IN  fx' = [fx EXCEPT
                          !.rates_cache = IF stored THEN rates ELSE @,
                          !.cache_timestamp = IF stored THEN fx.now ELSE @,
                          !.last = [at |-> fx.now, requested |-> ~hit,
                                    feed |-> feed, returned |-> returned,
                                    cache_before |-> fx.rates_cache,
                                    timestamp_before |-> fx.cache_timestamp]]
    /\ UNCHANGED <<draft, settings, ebay, category_cache, inv, prev, ops,
                   faults, exec, app>>

NextFx ==
    \/ Tick
    \/ FetchBceRates

SpecFx == InitFx /\ [][NextFx]_vars

(***************************************************************************)
(* exchange_rates.py: calls of fetch_bce_rates on several tasks of the     *)
(* event loop. A task gives way to the others at the await of the GET      *)
(* (line 39) and nowhere else.                                             *)
(***************************************************************************)
\* history: no table was stored yet
NoStore == [by |-> 0, at |-> NoTimestamp, feed |-> NoFeed]

\* a task that is not inside fetch_bce_rates
FxIdle == [pc |-> "idle", overlapped |-> FALSE, returned |-> EmptyMap]

\* the module after import, and the tasks of the event loop
FxTasks ==
    [pc |-> "tasks", rates_cache |-> EmptyMap,
     cache_timestamp |-> NoTimestamp, now |-> 0,
     task |-> [p \in Procs |-> FxIdle],
     last_store |-> NoStore, previous_store |-> NoStore]

InitFxTasks ==
    /\ draft = NewDraft(TRUE, TRUE, EmptyMap)
    /\ settings = EmptyMap
    /\ ebay = [inventory |-> {}, offers |-> [s \in AllSkus |-> NoOffer],
               locations |-> {}, next_offer |-> 1, next_listing |-> 1]
    /\ category_cache = EmptyMap
    /\ inv = [p \in Procs |-> Idle]
    /\ prev = NoPrev
    /\ ops = 0
    /\ faults = 0
    /\ exec = NoExec
    /\ fx = FxTasks
    /\ app = NoApp

\* a mutant of the store: the timestamp of the cache is left as it was
timestamp_kept(now, cache_timestamp) == cache_timestamp

\* line 61: _cache_timestamp = datetime.now(timezone.utc)
timestamp_at_store(now, cache_timestamp) == now

\* lines 33-39: task p enters fetch_bce_rates; a valid cache is returned,
\* otherwise the GET of the feed is sent and the task waits
FetchEnter(p) ==
    /\ fx.pc = "tasks"
    /\ fx.task[p].pc = "idle"
    /\ fx' = IF cache_valid(fx.cache_timestamp, fx.now)
             THEN [fx EXCEPT !.task[p] =
                      [FxIdle EXCEPT !.returned = fx.rates_cache]]
             ELSE [fx EXCEPT !.task[p] =
                      [pc |-> "requested",
                       overlapped |-> \E q \in Procs \ {p} :
                                         fx.task[q].pc = "requested",
                       returned |-> EmptyMap]]
    /\ UNCHANGED <<draft, settings, ebay, category_cache, inv, prev, ops,
                   faults, exec, app>>

\* lines 39-76: the GET of task p is answered; a table with rates is
\* stored with the time of the store, and the task returns
FetchAnswer(p) ==
    /\ fx.pc = "tasks"
    /\ fx.task[p].pc = "requested"
    /\ \E feed \in FeedResponses :
         LET rates == parsed_rates(feed.cubes)
             stored == /\ ~feed.raised
                       /\ feed.status_code = 200
                       /\ Cardinality(DOMAIN rates) > 1
             returned == IF stored THEN rates
                         ELSE rates_after_failure(fx.rates_cache)
         IN  fx' = [fx EXCEPT
                      !.rates_cache = IF stored THEN rates ELSE @,
                      !.cache_timestamp =
                          IF stored THEN timestamp_at_store(fx.now, @) ELSE @,
                      !.last_store =
                          IF stored
                          THEN [by |-> p, at |-> fx.now, feed |-> feed]
                          ELSE @,
                      !.previous_store =
                          IF stored THEN fx.last_store ELSE @,
                      !.task[p] = [pc |-> "idle",
                                   overlapped |-> fx.task[p].overlapped,
                                   returned |-> returned]]
    /\ UNCHANGED <<draft, settings, ebay, category_cache, inv, prev, ops,
                   faults, exec, app>>

NextFxTasks ==
    \/ Tick
    \/ \E p \in Procs : FetchEnter(p)
    \/ \E p \in Procs : FetchAnswer(p)

SpecFxTasks == InitFxTasks /\ [][NextFxTasks]_vars

(***************************************************************************)
(* Functions run on their own: convert_currency.  An amount or a rate is   *)
(* the exact fraction <<n, d>> of its decimal notation; the program holds  *)
(* its nearest float and rounds every product and quotient.                *)
(***************************************************************************)
RECURSIVE gcd(_, _)
gcd(a, b) == IF b = 0 THEN a ELSE gcd(b, a % b)

\* the fraction n/d in lowest terms
Frac(n, d) == LET g == gcd(n, d) IN <<n \div g, d \div g>>

\* the division by 0.0 raised ZeroDivisionError
ZeroDivisionError == <<0, 0>>

\* x * y
Times(x, y) ==
    IF x = ZeroDivisionError THEN x ELSE Frac(x[1] * y[1], x[2] * y[2])

\* x / y
Over(x, y) ==
    IF y[1] = 0 THEN ZeroDivisionError ELSE Frac(x[1] * y[2], x[2] * y[1])

\* rates.get(currency, 1.0)
rate_of(rates, currency) ==
    IF currency \in DOMAIN rates THEN rates[currency] ELSE One

\* a mutant of the conversion: an amount going to EUR is multiplied
convert_currency_times_to_eur(amount, from_currency, to_currency, rates) ==
    LET from_rate == rate_of(rates, from_currency)
        to_rate == rate_of(rates, to_currency)
    IN  IF from_currency = to_currency THEN amount
        ELSE IF from_currency = "EUR" THEN Times(amount, to_rate)
        ELSE IF to_currency = "EUR" THEN Times(amount, from_rate)
        ELSE Times(Over(amount, from_rate), to_rate)

\* lines 79-112: amount in from_currency -> EUR -> to_currency
convert_currency(amount, from_currency, to_currency, rates) ==
    LET from_rate == rate_of(rates, from_currency)
        to_rate == rate_of(rates, to_currency)
    IN  IF from_currency = to_currency THEN amount
        ELSE IF from_currency = "EUR" THEN Times(amount, to_rate)
        ELSE IF to_currency = "EUR" THEN Over(amount, from_rate)
        ELSE Times(Over(amount, from_rate), to_rate)

\* the currencies of MARKETPLACE_CURRENCIES
Currencies == {"EUR", "USD", "AUD", "GBP"}

\* the base shipping rates 10, 25 and 45, a price 19.99, and 0
Amounts == {<<10, 1>>, <<25, 1>>, <<45, 1>>, <<1999, 100>>, <<0, 1>>}

\* the tables fetch_bce_rates returns, and one quoting a rate of 0
RateTables ==
    {parsed_rates(c) : c \in FeedCubes}
    \cup {rates_after_failure(EmptyMap),
          [c \in {"EUR", "USD", "GBP"} |->
              CASE c = "EUR" -> One
                [] c = "USD" -> <<0, 1>>
                [] OTHER -> <<4, 5>>]}

InitFn ==
    /\ draft = NewDraft(TRUE, TRUE, EmptyMap)
    /\ settings = EmptyMap
    /\ ebay = [inventory |-> {}, offers |-> [s \in AllSkus |-> NoOffer],
               locations |-> {}, next_offer |-> 1, next_listing |-> 1]
    /\ category_cache = EmptyMap
    /\ inv = [p \in Procs |-> Idle]
    /\ prev = NoPrev
    /\ ops = 0
    /\ faults = 0
    /\ exec = NoExec
    /\ fx = NoFx
    /\ app = NoApp

\* convert_currency(amount, from_currency, to_currency, rates)
ConvertThere ==
    /\ \E amount \in Amounts, from_currency \in Currencies,
          to_currency \in Currencies, rates \in RateTables :
          app' = [fn |-> "convert_currency", amount |-> amount,
                  from_currency |-> from_currency,
                  to_currency |-> to_currency, rates |-> rates,
                  there |-> convert_currency(amount, from_currency,
                                             to_currency, rates),
                  converted_back |-> FALSE, back |-> <<0, 1>>]
    /\ UNCHANGED <<draft, settings, ebay, category_cache, inv, prev, ops,
                   faults, exec, fx>>

\* convert_currency(result, to_currency, from_currency, rates): the result
\* of the last conversion goes back to the currency it came from
ConvertBack ==
    /\ app.fn = "convert_currency"
    /\ ~app.converted_back
    /\ app.there # ZeroDivisionError
    /\ app' = [app EXCEPT
                 !.converted_back = TRUE,
                 !.back = convert_currency(app.there, app.to_currency,
                                           app.from_currency, app.rates)]
    /\ UNCHANGED <<draft, settings, ebay, category_cache, inv, prev, ops,
                   faults, exec, fx>>

\* the profiles handed to the validation: every combination of set and
\* unset fields of a known marketplace, and the profile of an unknown one
Profiles ==
    [known : {TRUE}, fulfillment_policy_id : {NoKey, "F"},
     payment_policy_id : {NoKey, "P"}, return_policy_id : {NoKey, "R"},
     merchant_location_key : {NoKey, "loc_it"}]
    \cup {get_default_marketplace_config("EBAY_IT")}

\* validate_marketplace_for_publish(marketplace_id, config)
Validate ==
    /\ \E marketplace_id \in RequestIds, config \in Profiles :
          app' = [fn |-> "validate_marketplace_for_publish",
                  marketplace_id |-> marketplace_id, config |-> config,
                  missing |-> validate_marketplace_for_publish(marketplace_id,
                                                              config)]
    /\ UNCHANGED <<draft, settings, ebay, category_cache, inv, prev, ops,
                   faults, exec, fx>>

NextFn ==
    \/ ConvertThere
    \/ ConvertBack
    \/ Validate

SpecFn == InitFn /\ [][NextFn]_vars

(***************************************************************************)
(* ebay_config.py: get_marketplace_config called in sequence with          *)
(* different settings documents, on the module's MARKETPLACE_CONFIG.       *)
(***************************************************************************)
\* the fields of MARKETPLACE_CONFIG[m]["policies"], and
\* shipping_service_code of MARKETPLACE_CONFIG[m]["shipping_standard"]
NestedFields ==
    {"fulfillment_policy_id", "payment_policy_id", "return_policy_id",
     "shipping_service_code"}

\* lines 27-108: the nested dicts of every entry, as compiled in
CompiledCatalog ==
    [m \in MARKETPLACE_CONFIG |-> [f \in NestedFields |-> NoKey]]

\* the settings documents handed to the resolver: db_settings["marketplaces"]
CfgSettings ==
    { [m \in {"EBAY_US", "EBAY_DE"} |->
          [fulfillment_policy_id |-> "F", payment_policy_id |-> "P",
           return_policy_id |-> "R", merchant_location_key |-> "loc_it",
           shipping_service_code |-> NoKey]],
      [m \in {"EBAY_US"} |->
          [fulfillment_policy_id |-> "F2", payment_policy_id |-> NoKey,
           return_policy_id |-> NoKey, merchant_location_key |-> NoKey,
           shipping_service_code |-> "X"]],
      [m \in {"EBAY_DE"} |->
          [fulfillment_policy_id |-> NoKey, payment_policy_id |-> NoKey,
           return_policy_id |-> "R", merchant_location_key |-> "loc_de",
           shipping_service_code |-> NoKey]],
      EmptyMap }

\* lines 162, 184-193: .copy() is shallow, so config["policies"] and
\* config["shipping_standard"] are the dicts of MARKETPLACE_CONFIG itself,
\* and the merge of the overrides writes into them
catalog_after(catalog, marketplace_id, db_settings) ==
    IF \/ marketplace_id \notin MARKETPLACE_CONFIG
       \/ marketplace_id \notin DOMAIN db_settings
    THEN catalog
    ELSE [catalog EXCEPT ![marketplace_id] =
            [f \in NestedFields |->
                IF db_settings[marketplace_id][f] # NoKey
                THEN db_settings[marketplace_id][f]
                ELSE @[f]]]

\* lines 165-199: the config returned by a call that finds the catalog as
\* earlier calls left it
config_from(catalog, marketplace_id, db_settings) ==
    IF marketplace_id \notin MARKETPLACE_CONFIG
    THEN [known |-> FALSE, fulfillment_policy_id |-> NoKey,
          payment_policy_id |-> NoKey, return_policy_id |-> NoKey,
          merchant_location_key |-> NoKey, shipping_service_code |-> NoKey]
    ELSE LET nested ==
                 catalog_after(catalog, marketplace_id, db_settings)[marketplace_id]
         IN  [known |-> TRUE,
              fulfillment_policy_id |-> nested.fulfillment_policy_id,
              payment_policy_id |-> nested.payment_policy_id,
              return_policy_id |-> nested.return_policy_id,
              merchant_location_key |->
                  IF marketplace_id \in DOMAIN db_settings
                  THEN db_settings[marketplace_id].merchant_location_key
                  ELSE NoKey,
              shipping_service_code |-> nested.shipping_service_code]

\* the module after import
CfgLoaded == [fn |-> "loaded", catalog |-> CompiledCatalog]

InitCfg ==
    /\ draft = NewDraft(TRUE, TRUE, EmptyMap)
    /\ settings = EmptyMap
    /\ ebay = [inventory |-> {}, offers |-> [s \in AllSkus |-> NoOffer],
               locations |-> {}, next_offer |-> 1, next_listing |-> 1]
    /\ category_cache = EmptyMap
    /\ inv = [p \in Procs |-> Idle]
    /\ prev = NoPrev
    /\ ops = 0
    /\ faults = 0
    /\ exec = NoExec
    /\ fx = NoFx
    /\ app = CfgLoaded

\* get_marketplace_config(marketplace_id, db_settings), then
\* validate_marketplace_for_publish on the config it returned
GetMarketplaceConfig ==
    /\ app.fn \in {"loaded", "get_marketplace_config"}
    /\ \E marketplace_id \in RequestIds, db_settings \in CfgSettings :
         LET config == config_from(app.catalog, marketplace_id, db_settings)
         IN  app' = [fn |-> "get_marketplace_config",
                     catalog |-> catalog_after(app.catalog, marketplace_id,
                                               db_settings),
                     marketplace_id |-> marketplace_id,
                     db_settings |-> db_settings,
                     config |-> config,
                     missing |-> validate_marketplace_for_publish(
                                     marketplace_id, config),
                     catalog_before |-> app.catalog]
    /\ UNCHANGED <<draft, settings, ebay, category_cache, inv, prev, ops,
                   faults, exec, fx>>

NextCfg == GetMarketplaceConfig

SpecCfg == InitCfg /\ [][NextCfg]_vars

(***************************************************************************)
(* server.py: bootstrap_marketplaces, one step per awaited remote call.    *)
(* The remote holds locations, fulfillment policies (never created here),  *)
(* payment policies and return policies per marketplace.                   *)
(***************************************************************************)
\* the id of the fulfillment policy named WORLDWIDE_SHIPPING_10, and of a
\* policy of another name
NamedPolicyId == 9
OtherPolicyId == 7

\* the fulfillment policies an account may hold for a marketplace
FulfillmentKinds == {"none", "other", "named"}

\* line 2912: location_key = f"warehouse_{country_code.lower()}"
warehouse_key(marketplace_id) ==
    CASE marketplace_id = "EBAY_US" -> "warehouse_us"
      [] marketplace_id = "EBAY_DE" -> "warehouse_de"
      [] marketplace_id = "EBAY_ES" -> "warehouse_es"
      [] OTHER -> "warehouse_au"

\* line 2896: BootstrapResult(marketplace_id=marketplace_id, success=False)
BootstrapResult(marketplace_id) ==
    [marketplace_id |-> marketplace_id, success |-> FALSE,
     location_key |-> NoKey, fulfillment_policy_id |-> NoId,
     payment_policy_id |-> NoId, return_policy_id |-> NoId,
     shipping_service_code |-> NoKey, error |-> ""]

\* history: nothing is known of an earlier run
NoRun == [ran |-> FALSE]

\* the handler is not running
NoBoot ==
    [fn |-> "bootstrap_marketplaces", pc |-> "idle", abort |-> "",
     marketplaces |-> <<>>, i |-> 0, results |-> <<>>,
     settings_update |-> EmptyMap, existing_marketplaces |-> EmptyMap,
     result |-> BootstrapResult(""), template_policy_id |-> NoId,
     our_policy_id |-> NoId, created |-> {}, skipped |-> {},
     first |-> NoRun]

\* the account before the first run: the fulfillment policies of every
\* marketplace, and whether payment policies exist already
BootRemote(kind, has_payment) ==
    [locations |-> {},
     fulfillment |-> [m \in MARKETPLACE_CONFIG |-> kind],
     payment |-> [m \in MARKETPLACE_CONFIG |->
                     IF has_payment THEN <<OtherPolicyId>> ELSE <<>>],
     payment_named |-> {},
     returns |-> [m \in MARKETPLACE_CONFIG |-> <<>>],
     next_policy |-> 1]

InitBoot ==
    /\ draft = NewDraft(TRUE, TRUE, EmptyMap)
    /\ settings = EmptyMap
    /\ \E kind \in FulfillmentKinds, has_payment \in BOOLEAN :
          ebay = BootRemote(kind, has_payment)
    /\ category_cache = EmptyMap
    /\ inv = [p \in Procs |-> Idle]
    /\ prev = NoPrev
    /\ ops = 0
    /\ faults = 0
    /\ exec = NoExec
    /\ fx = NoFx
    /\ app = NoBoot

\* lines 2891-2909: the loop enters iteration i, or ends; an unknown
\* marketplace gets its result at once
RECURSIVE BootEnter(_, _)
BootEnter(b, i) ==
    IF i > Len(b.marketplaces) THEN [b EXCEPT !.pc = "write", !.i = i]
    ELSE IF ~get_default_marketplace_config(b.marketplaces[i]).known
         THEN BootEnter(
                [b EXCEPT !.results =
                    Append(@, [BootstrapResult(b.marketplaces[i])
                                  EXCEPT !.error = "Unknown marketplace"])],
                i + 1)
    ELSE [b EXCEPT !.pc = "location", !.i = i,
                   !.result = BootstrapResult(b.marketplaces[i]),
                   !.template_policy_id = NoId, !.our_policy_id = NoId]

\* line 3390: results.append(result), and the loop goes on
BootAppended(b) ==
    BootEnter([b EXCEPT !.results = Append(@, b.result)], b.i + 1)

\* lines 3059, 3097, 3115: continue inside the try block: the rest of the
\* loop body, results.append(result) included, is not run
BootContinue(b) ==
    BootEnter([b EXCEPT !.skipped = @ \cup {b.marketplaces[b.i]}], b.i + 1)

\* lines 3386-3390: an exception inside the try block
BootRaised(b) == BootAppended([b EXCEPT !.result.error = "exception"])

\* lines 3360-3390: the ids are put into settings_update, the result is
\* marked and appended
BootSaved(b) ==
    LET m == b.marketplaces[b.i]
        r == b.result
        mp_settings ==
            [fulfillment_policy_id |-> r.fulfillment_policy_id,
             payment_policy_id |-> r.payment_policy_id,
             return_policy_id |-> r.return_policy_id,
             merchant_location_key |-> r.location_key,
             shipping_service_code |-> r.shipping_service_code]
        complete == /\ r.location_key # NoKey
                    /\ r.fulfillment_policy_id # NoId
                    /\ r.payment_policy_id # NoId
                    /\ r.return_policy_id # NoId
    IN  BootAppended(
          [b EXCEPT
             !.settings_update =
                 [k \in DOMAIN @ \cup {m} |->
                     IF k = m THEN mp_settings ELSE @[k]],
             !.result.success = complete,
             !.result.error = IF complete THEN "" ELSE "Missing"])

\* the marketplace of the current iteration
BootCur == app.marketplaces[app.i]

\* lines 2851-2873: the handler starts and reads the settings
BootStart(marketplaces) ==
    /\ app.fn = "bootstrap_marketplaces"
    /\ app.pc \in {"idle", "done"}
    /\ ops < MaxOps
    /\ ops' = ops + 1
    /\ app' = [NoBoot EXCEPT
                 !.pc = "token",
                 !.marketplaces = marketplaces,
                 !.existing_marketplaces = settings,
                 !.first = IF app.pc = "done"
                           THEN [ran |-> TRUE, abort |-> app.abort,
                                 marketplaces |-> app.marketplaces,
                                 results |-> app.results,
                                 settings_update |-> app.settings_update,
                                 settings |-> settings, remote |-> ebay]
                           ELSE NoRun]
    /\ UNCHANGED <<draft, settings, ebay, category_cache, inv, prev, faults,
                   exec, fx>>

\* lines 2857-2860: get_ebay_access_token(); 401 when it fails
BootToken ==
    /\ app.fn = "bootstrap_marketplaces" /\ app.pc = "token"
    /\ \E ok \in BOOLEAN :
          /\ Respond(ok, {TRUE})
          /\ app' = IF ok THEN [app EXCEPT !.pc = "opt_in"]
                    ELSE [app EXCEPT !.pc = "done", !.abort = "token"]
    /\ UNCHANGED <<draft, settings, ebay, category_cache, inv, prev, ops,
                   exec, fx>>

\* lines 2883-2889: the opt-in to business policies; its status is only
\* logged, an exception leaves the handler
BootOptIn ==
    /\ app.fn = "bootstrap_marketplaces" /\ app.pc = "opt_in"
    /\ \E resp \in {"ok", "error", "timeout"} :
          /\ Respond(resp, {"ok"})
          /\ app' = IF resp = "timeout"
                    THEN [app EXCEPT !.pc = "done", !.abort = "timeout"]
                    ELSE BootEnter(app, 1)
    /\ UNCHANGED <<draft, settings, ebay, category_cache, inv, prev, ops,
                   exec, fx>>

\* lines 2948-2949: the location key goes into the result
BootLocated(b) ==
    [b EXCEPT !.result.location_key = warehouse_key(b.marketplaces[b.i]),
              !.pc = "shipping"]

\* lines 2916-2922: the location is looked up
BootLocationCheck ==
    /\ app.fn = "bootstrap_marketplaces" /\ app.pc = "location"
    /\ \E resp \in {"200", "error", "timeout"} :
          /\ resp = "200" => warehouse_key(BootCur) \in ebay.locations
          /\ Respond(resp, IF warehouse_key(BootCur) \in ebay.locations
                           THEN {"200"} ELSE {"error"})
          /\ app' = CASE resp = "200" -> BootLocated(app)
                      [] resp = "error" -> [app EXCEPT !.pc = "location_create"]
                      [] OTHER -> BootRaised(app)
    /\ UNCHANGED <<draft, settings, ebay, category_cache, inv, prev, ops,
                   exec, fx>>

\* lines 2924-2946: the location is created; the remote answers 409 for a
\* key it holds; any status is accepted
BootLocationCreate ==
    /\ app.fn = "bootstrap_marketplaces" /\ app.pc = "location_create"
    /\ \E resp \in {"ok", "error", "timeout"} :
         LET key == warehouse_key(BootCur)
             creates == resp = "ok" /\ key \notin ebay.locations
         IN /\ Respond(resp, {"ok"})
            /\ app' = IF resp = "timeout" THEN BootRaised(app)
                      ELSE BootLocated(
                             [app EXCEPT !.created =
                                 IF creates
                                 THEN @ \cup {<<"location", BootCur>>}
                                 ELSE @])
            /\ ebay' = IF creates
                       THEN [ebay EXCEPT !.locations = @ \cup {key}]
                       ELSE ebay
    /\ UNCHANGED <<draft, settings, category_cache, inv, prev, ops,
                   exec, fx>>

\* lines 2963-3007: the shipping services of the marketplace; the first
\* service listed, else the entry of FALLBACK_SHIPPING_SERVICES
BootShippingServices ==
    /\ app.fn = "bootstrap_marketplaces" /\ app.pc = "shipping"
    /\ \E resp \in {"200", "error", "timeout"} :
          /\ Respond(resp, {"200"})
          /\ app' = CASE resp = "200" ->
                           [app EXCEPT !.result.shipping_service_code = "listed",
                                       !.pc = "by_name"]
                      [] resp = "error" ->
                           [app EXCEPT !.result.shipping_service_code = "fallback",
                                       !.pc = "by_name"]
                      [] OTHER -> BootRaised(app)
    /\ UNCHANGED <<draft, settings, ebay, category_cache, inv, prev, ops,
                   exec, fx>>

\* lines 3031-3044: the policy WORLDWIDE_SHIPPING_10 is looked up
BootPolicyByName ==
    /\ app.fn = "bootstrap_marketplaces" /\ app.pc = "by_name"
    /\ \E resp \in {"200", "error", "timeout"} :
          /\ resp = "200" => ebay.fulfillment[BootCur] = "named"
          /\ Respond(resp, IF ebay.fulfillment[BootCur] = "named"
                           THEN {"200"} ELSE {"error"})
          /\ app' = CASE resp = "200" ->
                           [app EXCEPT !.our_policy_id = NamedPolicyId,
                                       !.pc = "list_fulfillment"]
                      [] resp = "error" -> [app EXCEPT !.pc = "list_fulfillment"]
                      [] OTHER -> BootRaised(app)
    /\ UNCHANGED <<draft, settings, ebay, category_cache, inv, prev, ops,
                   exec, fx>>

\* lines 3048-3097: the fulfillment policies are listed; the named policy
\* is used as it is, else the first listed is the template; a status other
\* than 200 and an empty list end the iteration with continue
BootListFulfillment ==
    /\ app.fn = "bootstrap_marketplaces" /\ app.pc = "list_fulfillment"
    /\ \E resp \in {"200", "error", "timeout"} :
          /\ Respond(resp, {"200"})
          /\ app' =
               CASE resp = "200" ->
                      IF app.our_policy_id # NoId
                      THEN [app EXCEPT
                              !.template_policy_id = app.our_policy_id,
                              !.result.fulfillment_policy_id = app.our_policy_id,
                              !.pc = "list_payment"]
                      ELSE IF ebay.fulfillment[BootCur] = "none"
                           THEN BootContinue(app)
                      ELSE [app EXCEPT
                              !.template_policy_id =
                                  IF ebay.fulfillment[BootCur] = "named"
                                  THEN NamedPolicyId ELSE OtherPolicyId,
                              !.pc = "full_policy"]
                 [] resp = "error" -> BootContinue(app)
                 [] OTHER -> BootRaised(app)
    /\ UNCHANGED <<draft, settings, ebay, category_cache, inv, prev, ops,
                   exec, fx>>

\* lines 3105-3115: the template policy is loaded; a status other than 200
\* ends the iteration with continue
BootGetFullPolicy ==
    /\ app.fn = "bootstrap_marketplaces" /\ app.pc = "full_policy"
    /\ \E resp \in {"200", "error", "timeout"} :
          /\ Respond(resp, {"200"})
          /\ app' = CASE resp = "200" -> [app EXCEPT !.pc = "update_policy"]
                      [] resp = "error" -> BootContinue(app)
                      [] OTHER -> BootRaised(app)
    /\ UNCHANGED <<draft, settings, ebay, category_cache, inv, prev, ops,
                   exec, fx>>

\* lines 3223-3250: the template policy is updated with the new rates;
\* its id is taken whatever the status
BootUpdatePolicy ==
    /\ app.fn = "bootstrap_marketplaces" /\ app.pc = "update_policy"
    /\ \E resp \in {"200", "error", "timeout"} :
          /\ Respond(resp, {"200"})
          /\ app' = IF resp = "timeout" THEN BootRaised(app)
                    ELSE [app EXCEPT
                            !.result.fulfillment_policy_id =
                                app.template_policy_id,
                            !.pc = "list_payment"]
    /\ UNCHANGED <<draft, settings, ebay, category_cache, inv, prev, ops,
                   exec, fx>>

\* lines 3289, 3341: if not result.payment_policy_id / return_policy_id
needs_create(policy_id) == policy_id = NoId

\* lines 3276-3286: the payment policies are listed; the first is taken
BootListPayment ==
    /\ app.fn = "bootstrap_marketplaces" /\ app.pc = "list_payment"
    /\ \E resp \in {"200", "error", "timeout"} :
         LET existing == IF resp = "200" THEN ebay.payment[BootCur] ELSE <<>>
             found == IF existing # <<>> THEN existing[1] ELSE NoId
         IN /\ Respond(resp, {"200"})
            /\ app' = IF resp = "timeout" THEN BootRaised(app)
                      ELSE [app EXCEPT
                              !.result.payment_policy_id = found,
                              !.pc = IF needs_create(found)
                                     THEN "create_payment"
                                     ELSE "list_return"]
    /\ UNCHANGED <<draft, settings, ebay, category_cache, inv, prev, ops,
                   exec, fx>>

\* lines 3290-3305: a payment policy is created under the fixed name
\* "PayPal Payment {country_code} - {environment}"; the remote refuses a
\* name it holds
BootCreatePayment ==
    /\ app.fn = "bootstrap_marketplaces" /\ app.pc = "create_payment"
    /\ \E resp \in {"201", "error", "timeout"} :
         LET m == BootCur
             id == ebay.next_policy
         IN /\ resp = "201" => m \notin ebay.payment_named
            /\ Respond(resp, IF m \in ebay.payment_named
                             THEN {"error"} ELSE {"201"})
            /\ app' = CASE resp = "201" ->
                             [app EXCEPT
                                !.result.payment_policy_id = id,
                                !.created = @ \cup {<<"payment", m>>},
                                !.pc = "list_return"]
                        [] resp = "error" -> [app EXCEPT !.pc = "list_return"]
                        [] OTHER -> BootRaised(app)
            /\ ebay' = IF resp = "201"
                       THEN [ebay EXCEPT !.payment[m] = Append(@, id),
                                         !.payment_named = @ \cup {m},
                                         !.next_policy = @ + 1]
                       ELSE ebay
    /\ UNCHANGED <<draft, settings, category_cache, inv, prev, ops,
                   exec, fx>>

\* lines 3328-3338: the return policies are listed; the first is taken
BootListReturn ==
    /\ app.fn = "bootstrap_marketplaces" /\ app.pc = "list_return"
    /\ \E resp \in {"200", "error", "timeout"} :
         LET existing == IF resp = "200" THEN ebay.returns[BootCur] ELSE <<>>
             found == IF existing # <<>> THEN existing[1] ELSE NoId
             b == [app EXCEPT !.result.return_policy_id = found]
         IN /\ Respond(resp, {"200"})
            /\ app' = IF resp = "timeout" THEN BootRaised(app)
                      ELSE IF needs_create(found)
                           THEN [b EXCEPT !.pc = "create_return"]
                      ELSE BootSaved(b)
    /\ UNCHANGED <<draft, settings, ebay, category_cache, inv, prev, ops,
                   exec, fx>>

\* lines 3342-3390: a return policy is created under a name that ends in
\* secrets.token_hex(4), which the remote does not hold; then the ids are
\* saved
BootCreateReturn ==
    /\ app.fn = "bootstrap_marketplaces" /\ app.pc = "create_return"
    /\ \E resp \in {"201", "error", "timeout"} :
         LET m == BootCur
             id == ebay.next_policy
         IN /\ Respond(resp, {"201"})
            /\ app' = CASE resp = "201" ->
                             BootSaved(
                               [app EXCEPT
                                  !.result.return_policy_id = id,
                                  !.created = @ \cup {<<"return", m>>}])
                        [] resp = "error" -> BootSaved(app)
                        [] OTHER -> BootRaised(app)
            /\ ebay' = IF resp = "201"
                       THEN [ebay EXCEPT !.returns[m] = Append(@, id),
                                         !.next_policy = @ + 1]
                       ELSE ebay
    /\ UNCHANGED <<draft, settings, category_cache, inv, prev, ops,
                   exec, fx>>

\* lines 3396-3422: {**existing_marketplaces, **settings_update} is stored
\* and the results are returned, with summary.total = len(results)
BootWrite ==
    /\ app.fn = "bootstrap_marketplaces" /\ app.pc = "write"
    /\ settings' =
          [m \in DOMAIN app.existing_marketplaces
                    \cup DOMAIN app.settings_update |->
              IF m \in DOMAIN app.settings_update
              THEN app.settings_update[m]
              ELSE app.existing_marketplaces[m]]
    /\ app' = [app EXCEPT !.pc = "done"]
    /\ UNCHANGED <<draft, ebay, category_cache, inv, prev, ops, faults,
                   exec, fx>>

NextBoot ==
    \/ \E marketplaces \in Requests : BootStart(marketplaces)
    \/ BootToken
    \/ BootOptIn
    \/ BootLocationCheck
    \/ BootLocationCreate
    \/ BootShippingServices
    \/ BootPolicyByName
    \/ BootListFulfillment
    \/ BootGetFullPolicy
    \/ BootUpdatePolicy
    \/ BootListPayment
    \/ BootCreatePayment
    \/ BootListReturn
    \/ BootCreateReturn
    \/ BootWrite

SpecBoot == InitBoot /\ [][NextBoot]_vars

(***************************************************************************)
(* get_valid_category_for_marketplace run on its own, with the cache of    *)
(* suggestions it fills.                                                   *)
(***************************************************************************)
\* item types: two of CATEGORY_BY_ITEM_TYPE and one it does not list
ItemTypes == {"WHL", "APP", "BRG"}

\* marketplaces: two of MARKETPLACE_CATEGORY_TREE and one it does not list
ResolveMarketplaces == {"EBAY_US", "EBAY_AU", "EBAY_FR"}

\* no request was sent to the taxonomy API
NoTaxonomy == [raised |-> FALSE, status_code |-> 0, suggestions |-> <<>>]

\* lines 131-222: one call of get_valid_category_for_marketplace
ResolveCategory ==
    /\ \E item_type \in ItemTypes, marketplace_id \in ResolveMarketplaces :
          LET key == cache_key(marketplace_id, type_query(item_type))
              cached == key \in DOMAIN category_cache
              requested == /\ ~cached
                           /\ marketplace_id \in MARKETPLACE_CATEGORY_TREE
          IN  \E resp \in IF requested THEN TaxonomyResponses
                          ELSE {NoTaxonomy} :
                LET suggested == IF cached THEN category_cache[key]
                                 ELSE category_suggestion(resp)
                IN  /\ app' = [fn |-> "get_valid_category_for_marketplace",
                               item_type |-> item_type,
                               marketplace_id |-> marketplace_id,
                               cached |-> cached, requested |-> requested,
                               response |-> resp,
                               returned |->
                                  get_valid_category_for_marketplace(
                                      item_type, marketplace_id, suggested)]
                    /\ category_cache' =
                          IF requested /\ has_suggestion(resp)
                          THEN cache_with(category_cache, key, suggested)
                          ELSE category_cache
    /\ UNCHANGED <<draft, settings, ebay, inv, prev, ops, faults, exec, fx>>

NextCat == ResolveCategory

SpecCat == InitFn /\ [][NextCat]_vars

(***************************************************************************)
(* Properties of the orchestration.                                        *)
(***************************************************************************)
\* the publish call of task 1 has returned its result map
PublishDone == inv[1].op = "publish" /\ inv[1].pc = "done"

\* the resolved profile of marketplace m lacks a policy id or the location
\* key, or m is not a known marketplace
LacksRequiredField(m) ==
    LET c == get_marketplace_config(m, settings)
    IN  \/ ~c.known
        \/ c.fulfillment_policy_id = NoKey
        \/ c.payment_policy_id = NoKey
        \/ c.return_policy_id = NoKey
        \/ c.merchant_location_key = NoKey

\* the remote calls the current invocation issued for marketplace m
CallsFor(m) == {c \in inv[1].calls : c[2] = m}

\* C1: a second publish call with the same marketplaces, directly after a
\* completed one, keeps the listing id of every marketplace the first call
\* published and issues no create-offer and no publish-offer call for it.
C1_PublishTwiceSameListings ==
    (PublishDone /\ prev.valid /\ Range(prev.req) = Range(inv[1].req)) =>
        \A m \in DOMAIN prev.listings :
            /\ m \in DOMAIN draft.marketplace_listings
            /\ draft.marketplace_listings[m].listing_id = prev.listings[m].listing_id
            /\ <<"create_offer", m>> \notin inv[1].calls
            /\ <<"publish_offer", m>> \notin inv[1].calls

\* the publish-offer call of marketplace m got 429/5xx on every attempt
PublishExhausted(m) ==
    /\ m \in DOMAIN inv[1].publish_log
    /\ inv[1].publish_log[m].attempts = PublishMaxRetries
    /\ inv[1].publish_log[m].last = "retryable"

\* C2: when the publish-offer call of A fails on every attempt and B
\* succeeds in the same call, the result map has a failed entry for A and a
\* successful one for B, the draft is PUBLISHED, and marketplace_listings
\* holds B and not A.
C2_PartialFailureIsolation ==
    PublishDone =>
        \A a, b \in Range(inv[1].req) :
            (/\ PublishExhausted(a)
             /\ b \in DOMAIN inv[1].results /\ inv[1].results[b].success) =>
                /\ a \in DOMAIN inv[1].results
                /\ ~inv[1].results[a].success
                /\ draft.status = "PUBLISHED"
                /\ b \in DOMAIN draft.marketplace_listings
                /\ a \notin DOMAIN draft.marketplace_listings

C2_Witness ==
    /\ PublishDone
    /\ \E a, b \in Range(inv[1].req) :
          /\ PublishExhausted(a)
          /\ inv[1].results[b].success
          /\ inv[1].results[b].kind = "published"

\* C3: after publish({A, B}) ended with B successful and A failed, a
\* publish({A}) leaves B's entry of marketplace_listings as it was.
C3_SelectiveRetryKeepsSuccess ==
    (PublishDone /\ prev.valid) =>
        \A a, b \in Range(prev.req) :
            (/\ a # b
             /\ b \in DOMAIN prev.listings
             /\ ~prev.results[a].success
             /\ inv[1].req = <<a>>) =>
                /\ b \in DOMAIN draft.marketplace_listings
                /\ draft.marketplace_listings[b] = prev.listings[b]

\* C4: after the precondition and the config gate, a failing remote call of
\* one marketplace never aborts the call: the call returns, and the
\* marketplace whose remote call failed has a failed entry.
C4_FailureNeverAbortsBatch ==
    /\ (inv[1].op = "publish" /\ inv[1].pc = "aborted") =>
          inv[1].abort \in {"not_found", "validation", "config", "token"}
    /\ PublishDone =>
          \A m \in inv[1].failed :
              m \in DOMAIN inv[1].results /\ ~inv[1].results[m].success

\* C5: a publish call that names a marketplace whose profile lacks a
\* required field issues no remote call for it, no token request, and no
\* publish attempt.
C5_ConfigGateBeforeRemoteCalls ==
    inv[1].op = "publish" =>
        \A m \in Range(inv[1].req) :
            LacksRequiredField(m) =>
                /\ CallsFor(m) = {}
                /\ CallsFor("") = {}
                /\ inv[1].attempt = 0
                /\ m \notin DOMAIN inv[1].publish_log

C5_Witness ==
    /\ inv[1].op = "publish" /\ inv[1].pc = "aborted" /\ inv[1].abort = "config"
    /\ \E m \in Range(inv[1].req) :
          /\ get_marketplace_config(m, settings).known
          /\ get_marketplace_config(m, settings).return_policy_id = NoKey

\* the publish call names a marketplace that fails the configuration check
\* and one that is publish-ready, and the draft passed the precondition
MixedConfigRequest ==
    /\ inv[1].op = "publish"
    /\ inv[1].abort \notin {"not_found", "validation"}
    /\ \E a, b \in Range(inv[1].req) :
          LacksRequiredField(a) /\ ~LacksRequiredField(b)

C8_CompleteResultMap ==
    PublishDone =>
        /\ DOMAIN inv[1].results = Range(inv[1].req)
        /\ DOMAIN draft.multi_marketplace_results = Range(inv[1].req)

C8_Witness ==
    /\ PublishDone
    /\ \E a, b \in Range(inv[1].req) :
          /\ inv[1].results[a].kind = "published"
          /\ inv[1].results[b].kind = "create_failed"

\* C9: after a publish call in which a marketplace succeeded the draft is
\* PUBLISHED.
C9_PublishedIfAnySuccess ==
    (PublishDone /\ successful_marketplaces(inv[1].results) # {}) =>
        draft.status = "PUBLISHED"

C9_Witness ==
    /\ PublishDone
    /\ inv[1].read_status = "DRAFT"
    /\ successful_marketplaces(inv[1].results) # {}
    /\ successful_marketplaces(inv[1].results) # Range(inv[1].req)

\* C10 as stated: a publish-offer call that got 429/5xx on every attempt
\* leaves a failed entry with retries = max_retries, and every failed
\* publish entry carries a retry count.
C10_RetriesEqualMaxRetries ==
    PublishDone =>
        \A m \in DOMAIN inv[1].results :
            inv[1].results[m].kind = "publish_failed" =>
                /\ inv[1].results[m].has_retries
                /\ PublishExhausted(m) =>
                      inv[1].results[m].retries = PublishMaxRetries

\* C10 amended: a failed publish entry carries retries = attempts - 1 when
\* more than one attempt was made (max_retries - 1 when every attempt got
\* 429/5xx), and no retry count when the first attempt ended the call.
C10_RetriesAreAttemptsMinusOne ==
    PublishDone =>
        \A m \in DOMAIN inv[1].results :
            inv[1].results[m].kind = "publish_failed" =>
                LET attempts == inv[1].publish_log[m].attempts
                IN  /\ inv[1].results[m].has_retries = (attempts > 1)
                    /\ attempts > 1 => inv[1].results[m].retries = attempts - 1
                    /\ PublishExhausted(m) =>
                          inv[1].results[m].retries = PublishMaxRetries - 1

C10_Witness ==
    /\ PublishDone
    /\ \E m \in DOMAIN inv[1].results :
          /\ inv[1].results[m].kind = "publish_failed"
          /\ PublishExhausted(m)


(***************************************************************************)
(* Properties of the teardown.                                             *)
(***************************************************************************)
\* the teardown of one marketplace on task 1 has returned its response
UnpublishDone == inv[1].op = "unpublish" /\ inv[1].pc = "done"

\* the remote held neither an offer nor the inventory item of the scoped
\* SKU: list-offers answered with no offer or with not-found, and
\* delete-inventory answered not-found
AlreadyDeletedRemotely ==
    LET r == inv[1]
    IN  /\ r.calls = {<<"token", "">>, <<"list_offers", r.target>>,
                      <<"delete_inventory", r.target>>}
        /\ \E x \in {"200", "error"} :
              r.answers = {<<"token", "ok">>, <<"list_offers", x>>,
                           <<"delete_inventory", "error">>}
        /\ target_sku(r) \notin ebay.inventory
        /\ ebay.offers[target_sku(r)] = NoOffer

\* C11: unpublishing a listed marketplace whose offer and inventory item
\* were already deleted remotely reports success, that is collects no
\* remote error, and removes the marketplace from the draft.
C11_TeardownTolerance ==
    (UnpublishDone /\ AlreadyDeletedRemotely) =>
        /\ inv[1].ebay_errors = {}
        /\ inv[1].target \notin DOMAIN draft.marketplace_listings
        /\ inv[1].target \notin DOMAIN draft.multi_marketplace_results

\* a listed marketplace was unpublished after its remote offer and item
\* had gone, once with an empty offer list and once with not-found
C11_Witness ==
    /\ UnpublishDone
    /\ AlreadyDeletedRemotely
    /\ inv[1].target \in DOMAIN inv[1].read_listings
    /\ inv[1].read_listings[inv[1].target].listing_id # NoId


\* a teardown handler of task 1 has ended, with a response or an exception
TeardownEnded == inv[1].pc \in {"done", "aborted"}

\* C12: the unpublish of a marketplace present in marketplace_listings
\* removes it from the draft, and the deletion of an existing draft
\* removes the draft, whatever the remote answered: token failure, error
\* statuses and exceptions are only reported.
C12_LocalMutationNotBlocked ==
    /\ (/\ inv[1].op = "unpublish"
        /\ TeardownEnded
        /\ inv[1].target \in DOMAIN inv[1].read_listings) =>
            /\ inv[1].pc = "done"
            /\ inv[1].target \notin DOMAIN draft.marketplace_listings
    /\ (/\ inv[1].op = "delete"
        /\ TeardownEnded
        /\ inv[1].read_status # "") =>
            /\ inv[1].pc = "done"
            /\ ~draft.exists

\* an existing draft with a published listing was deleted although a call
\* of the remote teardown raised
C12_Witness ==
    /\ inv[1].op = "delete"
    /\ inv[1].pc = "done"
    /\ inv[1].read_listings # EmptyMap
    /\ "exception" \in inv[1].ebay_errors
    /\ ~draft.exists

\* a listed marketplace was unpublished although the token was refused
C12_WitnessUnpublish ==
    /\ UnpublishDone
    /\ "not_connected" \in inv[1].ebay_errors
    /\ inv[1].target \in DOMAIN inv[1].read_listings
    /\ inv[1].target \notin DOMAIN draft.marketplace_listings


\* the deletion of the draft on task 1 has returned, every remote call it
\* issued was answered as the state of the remote lets expect, and the
\* publish call before it had returned its result map
DeleteDoneAllSucceeded ==
    /\ inv[1].op = "delete"
    /\ inv[1].pc = "done"
    /\ inv[1].read_status # ""
    /\ inv[1].ebay_errors = {}
    /\ faults = inv[1].faults_before
    /\ prev.valid

\* C13: after publish calls followed by a deletion of the draft in which
\* every remote call succeeds, no offer and no inventory item remains
\* remotely under any scoped SKU the publish calls created.
C13_TeardownCoversEveryListing ==
    DeleteDoneAllSucceeded =>
        \A m \in RequestIds :
            /\ unique_sku(m) \notin ebay.inventory
            /\ ebay.offers[unique_sku(m)] = NoOffer


(***************************************************************************)
(* Properties of overlapping publish calls.                                *)
(***************************************************************************)
\* both tasks run or have run a publish call, and one of them started
\* while the other was under way
Overlapping ==
    /\ \A p \in Procs : inv[p].op = "publish"
    /\ \E p \in Procs : inv[p].overlaps

\* C14: when two publish calls for the same draft and marketplace
\* overlap, at most one offer is created for the scoped SKU and at most
\* one of the calls issues publish-offer.
C14_OverlappingPublishOnce ==
    \A m \in ConcMarketplaces :
        (/\ Overlapping
         /\ \A p \in Procs : inv[p].req = <<m>>) =>
            /\ ebay.next_offer <= 2
            /\ ~(\A p \in Procs : <<"publish_offer", m>> \in inv[p].calls)

\* C15: when two overlapping publish calls for the disjoint sets {A} and
\* {B} have both succeeded, the draft holds A and B both in
\* marketplace_listings and in multi_marketplace_results.
C15_OverlappingDisjointUnion ==
    (/\ Overlapping
     /\ \A p \in Procs : /\ inv[p].pc = "done"
                          /\ inv[p].results[inv[p].req[1]].success
     /\ inv[1].req # inv[2].req) =>
        \A p \in Procs :
            /\ inv[p].req[1] \in DOMAIN draft.marketplace_listings
            /\ inv[p].req[1] \in DOMAIN draft.multi_marketplace_results


(***************************************************************************)
(* Properties of retry_with_backoff.                                       *)
(***************************************************************************)
\* the attempt ended with HTTP 429, a status from 500 on, or a timeout
Retryable(outcome) ==
    \/ outcome.kind = "timeout"
    \/ outcome.status = 429
    \/ outcome.status >= 500

\* retry_with_backoff has returned or raised
Terminated == exec.pc \in {"returned", "raised"}

\* the entries of the log: one per attempt, in order
Attempts == IF exec.pc = "idle" THEN {} ELSE 1..Len(exec.log)

\* C16: attempt k+1 is issued only if attempt k ended with 429, a status
\* from 500 on, or a timeout; any other response is returned at once with
\* attempt number k, without a sleep and without a further request.
C16_RetryCondition ==
    \A k \in Attempts :
        /\ k < Len(exec.log) => Retryable(exec.log[k].outcome)
        /\ ~Retryable(exec.log[k].outcome) =>
              /\ k = Len(exec.log)
              /\ exec.pc = "returned"
              /\ exec.attempt_number = k
              /\ exec.requests = k
              /\ exec.log[k].slept = 0

\* a 400 on the second attempt, after a retried first one, was returned
C16_Witness ==
    /\ exec.pc = "returned"
    /\ Len(exec.log) = 2
    /\ exec.log[2].outcome.status = 400
    /\ exec.attempt_number = 2

\* at most max_retries requests; a run of retryable attempts only ends
\* after max_retries of them, with the last response or the timeout, and
\* without a sleep after the last attempt
RetryBound ==
    exec.pc # "idle" =>
        /\ exec.requests <= exec.max_retries
        /\ exec.requests = Len(exec.log)
        /\ (Terminated /\ \A k \in Attempts : Retryable(exec.log[k].outcome)) =>
              LET last == exec.log[Len(exec.log)]
              IN  /\ exec.requests = exec.max_retries
                  /\ last.slept = 0
                  /\ last.outcome.kind = "response" =>
                        /\ exec.pc = "returned"
                        /\ exec.attempt_number = exec.max_retries
                  /\ last.outcome.kind = "timeout" => exec.pc = "raised"

\* C17: for max_retries >= 1 the executor issues at most max_retries
\* requests and then terminates; when every attempt is retryable it
\* returns the last response with attempt number max_retries, or raises
\* the timeout of the last attempt, without sleeping after that attempt.
C17_RetryBoundAndTermination == []RetryBound /\ <>Terminated

\* three timeouts in a row with max_retries = 3: the timeout was raised
C17_Witness ==
    /\ exec.pc = "raised"
    /\ exec.max_retries = 3
    /\ exec.requests = 3
    /\ \A k \in Attempts : exec.log[k].outcome.kind = "timeout"

\* attempt k ended with a 429 that carries no Retry-After header, and a
\* sleep followed
Slept429NoHeader(k) ==
    /\ k < exec.max_retries
    /\ exec.log[k].outcome.status = 429
    /\ ~exec.log[k].outcome.retry_after.present

\* base_delay * 2^(k-1)
Exponential(k) == exec.base_delay * (2 ^ (k - 1))

C19_RetryAfterPriority ==
    \A k \in Attempts :
        (/\ k < exec.max_retries
         /\ exec.log[k].outcome.status = 429
         /\ exec.log[k].outcome.retry_after.numeric) =>
            exec.log[k].slept >= exec.log[k].outcome.retry_after.value


(***************************************************************************)
(* Properties of the global precondition.                                  *)
(***************************************************************************)
\* C20: a publish call for a draft that does not exist, has no title or
\* has no image aborts before any marketplace is touched: it issues no
\* remote call, builds no result, and leaves the draft as it read it.
C20_GlobalPrecondition ==
    (/\ inv[1].op = "publish"
     /\ ~draft.exists \/ ~draft.title \/ ~draft.image_urls) =>
        /\ inv[1].pc = "aborted"
        /\ inv[1].abort \in {"not_found", "validation"}
        /\ inv[1].calls = {}
        /\ inv[1].results = EmptyMap
        /\ draft.multi_marketplace_results = inv[1].read_results
        /\ draft.marketplace_listings = inv[1].read_listings
        /\ draft.status = inv[1].read_status

\* a publish call for a draft with a title and without an image was
\* rejected
C20_Witness ==
    /\ inv[1].op = "publish"
    /\ draft.exists /\ draft.title /\ ~draft.image_urls
    /\ inv[1].abort = "validation"

\* a publish call for a draft deleted before was rejected
C20_WitnessDeleted ==
    /\ inv[1].op = "publish"
    /\ ~draft.exists
    /\ inv[1].abort = "not_found"
    /\ ops = 2


(***************************************************************************)
(* Properties of the exchange rates.                                       *)
(***************************************************************************)
\* the last call of fetch_bce_rates sent a request and got no rates from it
FetchFailed ==
    /\ fx.last # NoCall
    /\ fx.last.requested
    /\ \/ fx.last.feed.raised
       \/ fx.last.feed.status_code # 200
       \/ fx.last.feed.cubes = EmptyMap

\* the last call of fetch_bce_rates sent a request and got rates from it
FetchSucceeded ==
    /\ fx.last # NoCall
    /\ fx.last.requested
    /\ ~fx.last.feed.raised
    /\ fx.last.feed.status_code = 200
    /\ fx.last.feed.cubes # EmptyMap

\* hours between the snapshot held when the last call began and that call
AgeAtLastCall == fx.last.at - fx.last.timestamp_before

\* C21: a call made while the snapshot is younger than 12 hours returns the
\* snapshot and sends no request; a call made without a snapshot, or with
\* one older than 12 hours, sends a request; a request answered with rates
\* replaces the snapshot and its timestamp
C21_CacheFreshness ==
    (fx.pc = "ready" /\ fx.last # NoCall) =>
        /\ (fx.last.timestamp_before # NoTimestamp /\ AgeAtLastCall < 12) =>
               /\ ~fx.last.requested
               /\ fx.last.returned = fx.last.cache_before
               /\ fx.rates_cache = fx.last.cache_before
               /\ fx.cache_timestamp = fx.last.timestamp_before
        /\ (fx.last.timestamp_before = NoTimestamp \/ AgeAtLastCall > 12) =>
               fx.last.requested
        /\ FetchSucceeded =>
               /\ fx.rates_cache = fx.last.feed.cubes @@ ("EUR" :> <<1, 1>>)
               /\ fx.last.returned = fx.rates_cache
               /\ fx.cache_timestamp = fx.last.at

\* a snapshot older than 12 hours was replaced by a different one
C21_Witness ==
    /\ fx.pc = "ready" /\ fx.last # NoCall
    /\ fx.last.timestamp_before # NoTimestamp
    /\ AgeAtLastCall > 12
    /\ FetchSucceeded
    /\ fx.last.cache_before # EmptyMap
    /\ fx.rates_cache # fx.last.cache_before
    /\ fx.cache_timestamp = fx.last.at

\* a snapshot 11 hours old was served without a request
C21_WitnessHit ==
    /\ fx.pc = "ready" /\ fx.last # NoCall
    /\ fx.last.timestamp_before # NoTimestamp
    /\ AgeAtLastCall = 11
    /\ ~fx.last.requested
    /\ fx.last.returned = fx.rates_cache

\* the hardcoded table: EUR, USD, AUD and GBP
HardcodedTable ==
    [c \in {"EUR", "USD", "AUD", "GBP"} |->
        CASE c = "EUR" -> <<1, 1>>
          [] c = "USD" -> <<108, 100>>
          [] c = "AUD" -> <<165, 100>>
          [] OTHER -> <<85, 100>>]

\* a failed request returned the last snapshot, or the hardcoded table when
\* there is none, and left the snapshot and its timestamp as they were
FailureServedFromCache ==
    FetchFailed =>
        /\ fx.last.returned = IF fx.last.cache_before # EmptyMap
                              THEN fx.last.cache_before
                              ELSE HardcodedTable
        /\ fx.rates_cache = fx.last.cache_before
        /\ fx.cache_timestamp = fx.last.timestamp_before
        /\ fx.rates_cache # HardcodedTable

\* the call that follows a failed request sends a request again
FailureIsRetried ==
    (FetchFailed /\ fx'.last # fx.last) => fx'.last.requested

\* C22: when the request fails (exception, status other than 200, document
\* without rates) the call returns the last fetched snapshot if there is
\* one and the hardcoded table otherwise; the snapshot and its timestamp
\* stay as they were, the table is never stored, and the next call sends
\* the request again
C22_FallbackChain == []FailureServedFromCache /\ [][FailureIsRetried]_vars

\* a failed request was answered with a snapshot older than 12 hours
C22_Witness ==
    /\ FetchFailed
    /\ fx.last.cache_before # EmptyMap
    /\ fx.last.returned = fx.last.cache_before
    /\ AgeAtLastCall > 12

\* a failed request without any snapshot was answered with the table
C22_WitnessTable ==
    /\ FetchFailed
    /\ fx.last.cache_before = EmptyMap
    /\ fx.last.returned = HardcodedTable
    /\ fx.cache_timestamp = NoTimestamp

\* the fractions x and y are the same number
SameNumber(x, y) == x[2] # 0 /\ y[2] # 0 /\ x[1] * y[2] = y[1] * x[2]

\* both currencies of the last conversion are quoted at a rate other than 0
BothQuoted ==
    /\ {app.from_currency, app.to_currency} \subseteq DOMAIN app.rates
    /\ app.rates[app.from_currency][1] # 0
    /\ app.rates[app.to_currency][1] # 0

\* C26: an amount converted from A to B and back from B to A with the same
\* rates is the amount itself, for A and B quoted at rates other than 0
C26_CurrencyRoundTrip ==
    (app.fn = "convert_currency" /\ app.converted_back /\ BothQuoted) =>
        SameNumber(app.back, app.amount)

\* 19.99 USD went to AUD through EUR and came back as 19.99 USD
C26_Witness ==
    /\ app.fn = "convert_currency" /\ app.converted_back /\ BothQuoted
    /\ app.from_currency = "USD" /\ app.to_currency = "AUD"
    /\ app.amount = <<1999, 100>>
    /\ ~SameNumber(app.there, app.amount)
    /\ SameNumber(app.back, app.amount)

(***************************************************************************)
(* Properties of the configuration validation.                             *)
(***************************************************************************)
\* the fields a profile must carry to be publish-ready
RequiredFields ==
    {"fulfillment_policy_id", "payment_policy_id", "return_policy_id",
     "merchant_location_key"}

\* the required fields the validated profile leaves empty
EmptyFields == {f \in RequiredFields : app.config[f] = ""}

\* C25: the validation returns the empty list exactly when the four
\* required fields of the profile are non-empty, and otherwise one
\* descriptor for each empty field; for the profile of an unknown
\* marketplace it returns the single descriptor "Unknown marketplace"
C25_ValidationExact ==
    app.fn = "validate_marketplace_for_publish" =>
        IF ~app.config.known
        THEN app.missing =
                << <<"Unknown marketplace", app.marketplace_id>> >>
        ELSE /\ (app.missing = <<>>) <=> (EmptyFields = {})
             /\ Len(app.missing) = Cardinality(EmptyFields)
             /\ {app.missing[k] : k \in DOMAIN app.missing} =
                    {<<f, app.marketplace_id>> : f \in EmptyFields}

\* a profile lacking the return policy and the location got two descriptors
C25_Witness ==
    /\ app.fn = "validate_marketplace_for_publish"
    /\ app.config.known
    /\ EmptyFields = {"return_policy_id", "merchant_location_key"}
    /\ Len(app.missing) = 2

\* the profile of an unknown marketplace got the single descriptor
C25_WitnessUnknown ==
    /\ app.fn = "validate_marketplace_for_publish"
    /\ ~app.config.known
    /\ Len(app.missing) = 1

(***************************************************************************)
(* Properties of the category of the offers.                               *)
(***************************************************************************)
\* the longest prefix of value made of digits only
LeadingRun(value) ==
    LET digits == {"0", "1", "2", "3", "4", "5", "6", "7", "8", "9"}
        n == CHOOSE k \in 0..Len(value) :
                /\ \A j \in 1..k : value[j] \in digits
                /\ k < Len(value) => value[k + 1] \notin digits
    IN  SubSeq(value, 1, n)

\* the calls about the offer of a marketplace
OfferCalls == {"list_offers", "delete_offer", "update_offer", "create_offer",
               "publish_offer"}

\* C23: the categoryId of every offer payload is the leading run of digits
\* of the value resolved for the marketplace; a resolved value that does
\* not start with a digit fails the marketplace without any call about
\* its offer, and the other marketplaces of the request are still processed
C23_CategorySanitized ==
    inv[1].op = "publish" =>
        \A m \in DOMAIN inv[1].resolved :
            /\ m \in DOMAIN inv[1].log =>
                  \A k \in DOMAIN inv[1].log[m] :
                      inv[1].log[m][k].step \in {"create_offer", "update_offer"}
                      => /\ inv[1].log[m][k].categoryId # <<>>
                         /\ inv[1].log[m][k].categoryId =
                               LeadingRun(inv[1].resolved[m])
            /\ LeadingRun(inv[1].resolved[m]) = <<>> =>
                  /\ m \in DOMAIN inv[1].results
                  /\ ~inv[1].results[m].success
                  /\ \A c \in OfferCalls : <<c, m>> \notin inv[1].calls
                  /\ inv[1].pc = "done" =>
                        \A k \in DOMAIN inv[1].req :
                            inv[1].req[k] \in DOMAIN inv[1].results

\* EBAY_DE was resolved to "W6" and failed without a call about its offer;
\* EBAY_US, next in the request, was resolved to "63 W" and published with
\* categoryId "63"
C23_Witness ==
    /\ inv[1].op = "publish" /\ inv[1].pc = "done"
    /\ inv[1].req = <<"EBAY_DE", "EBAY_US">>
    /\ inv[1].resolved = [m \in {"EBAY_DE", "EBAY_US"} |->
                             IF m = "EBAY_DE" THEN <<"W", "6">>
                             ELSE <<"6", "3", " ", "W">>]
    /\ ~inv[1].results["EBAY_DE"].success
    /\ inv[1].results["EBAY_US"].success
    /\ \E k \in DOMAIN inv[1].log["EBAY_US"] :
          /\ inv[1].log["EBAY_US"][k].step = "create_offer"
          /\ inv[1].log["EBAY_US"][k].categoryId = <<"6", "3">>

\* the last resolution got nothing from the taxonomy API: no category tree
\* for the marketplace, an exception, a status other than 200, no
\* suggestion
TaxonomyFailed ==
    /\ app.fn = "get_valid_category_for_marketplace"
    /\ ~app.cached
    /\ \/ ~app.requested
       \/ app.response.raised
       \/ app.response.status_code # 200
       \/ app.response.suggestions = <<>>

\* the entry of the static table for the last resolution, <<>> if absent
TableEntry ==
    IF /\ app.item_type \in DOMAIN CATEGORY_BY_ITEM_TYPE
       /\ app.marketplace_id \in DOMAIN CATEGORY_BY_ITEM_TYPE[app.item_type]
    THEN CATEGORY_BY_ITEM_TYPE[app.item_type][app.marketplace_id]
    ELSE <<>>

\* C24: the resolution returns a non-empty category id for every input;
\* when the taxonomy lookup fails it returns the entry of the static table
\* for the item type and the marketplace, and the universal id "16265"
\* when the table has no such entry
C24_ResolutionTotal ==
    app.fn = "get_valid_category_for_marketplace" =>
        /\ app.returned # <<>>
        /\ TaxonomyFailed =>
              app.returned = IF TableEntry # <<>> THEN TableEntry
                             ELSE <<"1", "6", "2", "6", "5">>

\* the taxonomy API answered 500 for an item type the table does not list:
\* the universal id was returned
C24_Witness ==
    /\ TaxonomyFailed
    /\ app.requested /\ app.response.status_code = 500
    /\ app.item_type = "BRG" /\ app.marketplace_id = "EBAY_US"
    /\ app.returned = <<"1", "6", "2", "6", "5">>

\* the request raised: the table entry of (APP, EBAY_AU) was returned
C24_WitnessTable ==
    /\ TaxonomyFailed
    /\ app.requested /\ app.response.raised
    /\ app.item_type = "APP" /\ app.marketplace_id = "EBAY_AU"
    /\ app.returned = <<"3", "6", "6", "4", "2">>

\* a cached suggestion without a categoryId fell back to the table
C24_WitnessCachedNone ==
    /\ app.fn = "get_valid_category_for_marketplace"
    /\ app.cached
    /\ app.returned = TableEntry
    /\ category_cache[<<app.marketplace_id, ":", "skateboard wheels">>] = <<>>

(***************************************************************************)
(* Properties of republish_draft.                                          *)
(***************************************************************************)
\* the 'language' value configured for a marketplace
ConfiguredLanguage(m) ==
    CASE m = "EBAY_US" -> "en-US"
      [] m = "EBAY_DE" -> "de-DE"
      [] m = "EBAY_ES" -> "es-ES"
      [] m = "EBAY_AU" -> "en-AU"

\* C27: the inventory update republish sends for a marketplace carries the
\* Content-Language configured as that marketplace's 'language'
C27_RepublishLanguage ==
    inv[1].op = "republish" =>
        \A m \in DOMAIN inv[1].content_language :
            inv[1].content_language[m] = ConfiguredLanguage(m)

\* C28: republish of a draft that is not PUBLISHED, or that has no
\* marketplace_listings, is rejected with 400 before any remote call; no
\* republish call changes status, marketplace_listings or
\* multi_marketplace_results
C28_RepublishOnlyPublished ==
    inv[1].op = "republish" =>
        /\ (/\ draft.exists
            /\ \/ inv[1].read_status # "PUBLISHED"
               \/ inv[1].read_listings = EmptyMap) =>
               /\ inv[1].pc = "aborted"
               /\ inv[1].abort \in {"not_published", "no_listings"}
               /\ inv[1].calls = {}
        /\ draft.status = inv[1].read_status
        /\ draft.marketplace_listings = inv[1].read_listings
        /\ draft.multi_marketplace_results = inv[1].read_results

\* republish was rejected for a draft whose publish call failed everywhere
C28_Witness ==
    /\ inv[1].op = "republish" /\ inv[1].pc = "aborted"
    /\ inv[1].abort = "not_published"
    /\ inv[1].read_results # EmptyMap
    /\ inv[1].calls = {}
    /\ ebay.inventory # {}

\* republish of a published draft updated an inventory item and returned
C28_WitnessDone ==
    /\ inv[1].op = "republish" /\ inv[1].pc = "done"
    /\ inv[1].read_status = "PUBLISHED"
    /\ \E m \in DOMAIN inv[1].results : inv[1].results[m].success
    /\ draft.marketplace_listings = inv[1].read_listings

(***************************************************************************)
(* Properties of the offer reconciliation.                                 *)
(***************************************************************************)
\* the calls about the offer of marketplace m, in the order they were made
OfferLog(m) == IF m \in DOMAIN inv[1].log THEN inv[1].log[m] ELSE <<>>

\* the call returned an offer id that may be published
YieldsOfferId(e) ==
    \/ e.step = "create_offer" /\ e.resp \in {"201", "exists"}
    \/ e.step = "update_offer" /\ e.resp = "ok"

\* the publish call is at marketplace m, about to make the call next
AboutTo(m, next) ==
    /\ inv[1].pc = next
    /\ inv[1].req[inv[1].i] = m

\* C30: an unpublished offer found for the marketplace is first deleted;
\* after a successful delete a new offer is created and the id it returns
\* is published; after a failed delete the offer is updated with the full
\* payload and no offer is created; after a failed update the marketplace
\* is recorded as failed and publish-offer is not called; publish-offer is
\* only ever called with the offer id of a successful create, of an
\* 'already exists' answer to create, or of a successful update
C30_OfferReconciliation ==
    inv[1].op = "publish" =>
        \A m \in RequestIds :
            LET L == OfferLog(m)
            IN  \A k \in DOMAIN L :
                  /\ (L[k].step = "list_offers" /\ L[k].offer_id # NoId
                         /\ k < Len(L)) =>
                        /\ L[k + 1].step = "delete_offer"
                        /\ L[k + 1].offer_id = L[k].offer_id
                  /\ L[k].step = "delete_offer" =>
                        /\ k > 1 /\ L[k - 1].step = "list_offers"
                        /\ L[k - 1].offer_id = L[k].offer_id
                  /\ (L[k].step = "delete_offer" /\ L[k].resp = "ok") =>
                        IF k = Len(L) THEN AboutTo(m, "create_offer")
                        ELSE L[k + 1].step = "create_offer"
                  /\ (L[k].step = "delete_offer" /\ L[k].resp = "error") =>
                        /\ IF k = Len(L) THEN AboutTo(m, "update_offer")
                           ELSE /\ L[k + 1].step = "update_offer"
                                /\ L[k + 1].offer_id = L[k].offer_id
                        /\ \A j \in DOMAIN L : L[j].step # "create_offer"
                  /\ (L[k].step = "update_offer" /\ L[k].resp = "error") =>
                        /\ k = Len(L)
                        /\ m \in DOMAIN inv[1].results
                        /\ ~inv[1].results[m].success
                        /\ <<"publish_offer", m>> \notin inv[1].calls
                  /\ YieldsOfferId(L[k]) =>
                        IF k = Len(L) THEN AboutTo(m, "publish")
                        ELSE /\ L[k + 1].step = "publish_offer"
                             /\ L[k + 1].offer_id = L[k].offer_id
                  /\ L[k].step = "publish_offer" =>
                        /\ k > 1
                        /\ YieldsOfferId(L[k - 1])
                        /\ L[k].offer_id # NoId
                        /\ L[k].offer_id = L[k - 1].offer_id

\* the delete of an unpublished offer failed, the offer was updated and
\* then published under its own id
C30_Witness ==
    /\ inv[1].op = "publish" /\ inv[1].pc = "done"
    /\ \E m \in RequestIds :
          LET L == OfferLog(m)
          IN  /\ Len(L) = 4
              /\ L[2].step = "delete_offer" /\ L[2].resp = "error"
              /\ L[3].step = "update_offer" /\ L[3].resp = "ok"
              /\ L[4].step = "publish_offer"
              /\ L[4].offer_id = L[1].offer_id
              /\ inv[1].results[m].success

\* the unpublished offer was deleted, and a new offer created and published
C30_WitnessRecreated ==
    /\ inv[1].op = "publish" /\ inv[1].pc = "done"
    /\ \E m \in RequestIds :
          LET L == OfferLog(m)
          IN  /\ Len(L) = 4
              /\ L[2].step = "delete_offer" /\ L[2].resp = "ok"
              /\ L[3].step = "create_offer" /\ L[3].resp = "201"
              /\ L[4].step = "publish_offer"
              /\ L[4].offer_id = L[3].offer_id
              /\ L[4].offer_id # L[1].offer_id
              /\ inv[1].results[m].success

\* the delete and the update both failed: no publish-offer call
C30_WitnessFailed ==
    /\ inv[1].op = "publish" /\ inv[1].pc = "done"
    /\ \E m \in RequestIds :
          LET L == OfferLog(m)
          IN  /\ Len(L) = 3
              /\ L[3].step = "update_offer" /\ L[3].resp = "error"
              /\ ~inv[1].results[m].success

(***************************************************************************)
(* Properties of the recovery after a lost write.                          *)
(***************************************************************************)
\* the publish call of task 1 has written its results, and the call before
\* it was interrupted after it had published marketplace m remotely
RecoversLostWrite(m) ==
    /\ inv[1].op = "publish" /\ inv[1].pc = "done"
    /\ m \in DOMAIN prev.lost
    /\ \E k \in DOMAIN inv[1].req : inv[1].req[k] = m

ListOffersAnswered(m) ==
    /\ OfferLog(m) # <<>>
    /\ OfferLog(m)[1].step = "list_offers"
    /\ OfferLog(m)[1].resp = "200"

LocationCalls(step, key) ==
    {k \in DOMAIN inv[1].location_log :
        /\ inv[1].location_log[k].step = step
        /\ inv[1].location_log[k].key = key}

\* the location keys of the marketplaces of the request
RequestedKeys ==
    {get_marketplace_config(inv[1].req[k], settings).merchant_location_key :
        k \in DOMAIN inv[1].req}

\* C31: within one publish call every distinct location key is looked up
\* at most once and created at most once, and it is created only right
\* after a lookup of the same key that did not answer 200
C31_LocationOncePerKey ==
    inv[1].op = "publish" =>
        /\ \A k \in DOMAIN inv[1].location_log :
              LET e == inv[1].location_log[k]
              IN  /\ Cardinality(LocationCalls("get_location", e.key)) <= 1
                  /\ Cardinality(LocationCalls("create_location", e.key)) <= 1
                  /\ e.step = "create_location" =>
                        /\ k > 1
                        /\ inv[1].location_log[k - 1].step = "get_location"
                        /\ inv[1].location_log[k - 1].key = e.key
                        /\ inv[1].location_log[k - 1].resp # "200"
        /\ Len(inv[1].location_log) <= 2 * Cardinality(RequestedKeys)

\* two marketplaces share the location key: one lookup, one creation
C31_Witness ==
    /\ inv[1].op = "publish" /\ inv[1].pc = "done"
    /\ inv[1].req = <<"EBAY_US", "EBAY_DE">>
    /\ Cardinality(RequestedKeys) = 1
    /\ Len(inv[1].location_log) = 2
    /\ inv[1].location_log[2].step = "create_location"
    /\ inv[1].results["EBAY_US"].success
    /\ inv[1].results["EBAY_DE"].success

(***************************************************************************)
(* Properties of the remote teardown.                                      *)
(***************************************************************************)
\* task 1 runs or has run a teardown: delete_draft or
\* delete_draft_marketplace
InTeardown == inv[1].op \in {"unpublish", "delete"}

\* the positions of the teardown log where step was called on sku
TeardownCalls(step, sku) ==
    {k \in DOMAIN inv[1].teardown_log :
        /\ inv[1].teardown_log[k].step = step
        /\ inv[1].teardown_log[k].sku = sku}

\* the SKUs the teardown of task 1 has to process
ScopeSkus ==
    IF inv[1].op = "delete"
    THEN {base_sku} \cup {inv[1].read_listings[m].sku :
                              m \in DOMAIN inv[1].read_listings}
    ELSE {inv[1].read_listings[inv[1].target].sku}

\* the teardown has ended, the token was obtained and every remote call
\* was answered with a status: no exception was raised
TeardownAnsweredThroughout ==
    /\ InTeardown /\ inv[1].pc = "done"
    /\ <<"token", "ok">> \in inv[1].answers
    /\ \A k \in DOMAIN inv[1].teardown_log :
          inv[1].teardown_log[k].resp # "timeout"

\* C32: in a teardown the offers of a SKU are listed before any other call
\* on it, a published offer is withdrawn right before it is deleted, the
\* inventory item is deleted after the offer, and when every call is
\* answered with a status, whatever the status, every SKU in scope gets
\* its list-offers call, the withdraw and delete calls of the offer listed
\* and its delete-inventory call
C32_TeardownOrderAndTolerance ==
    InTeardown =>
      LET L == inv[1].teardown_log
      IN
        /\ \A k \in DOMAIN L :
              /\ L[k].step = "list_offers" =>
                    \A j \in 1..(k - 1) : L[j].sku # L[k].sku
              /\ L[k].step = "withdraw" =>
                    /\ k > 1
                    /\ L[k - 1].step = "list_offers"
                    /\ L[k - 1].sku = L[k].sku
                    /\ L[k - 1].listed = "PUBLISHED"
              /\ L[k].step = "delete_offer" =>
                    /\ k > 1
                    /\ L[k - 1].sku = L[k].sku
                    /\ \/ L[k - 1].step = "withdraw"
                       \/ /\ L[k - 1].step = "list_offers"
                          /\ L[k - 1].listed \notin {"", "NONE", "PUBLISHED"}
              /\ L[k].step = "delete_inventory" =>
                    /\ TeardownCalls("list_offers", L[k].sku) # {}
                    /\ \A j \in (k + 1)..Len(L) : L[j].sku # L[k].sku
        /\ TeardownAnsweredThroughout =>
              \A sku \in ScopeSkus :
                 /\ Cardinality(TeardownCalls("list_offers", sku)) = 1
                 /\ Cardinality(TeardownCalls("delete_inventory", sku)) = 1
                 /\ \A k \in TeardownCalls("list_offers", sku) :
                       /\ L[k].listed = "PUBLISHED" =>
                             TeardownCalls("withdraw", sku) # {}
                       /\ L[k].listed \notin {"", "NONE"} =>
                             TeardownCalls("delete_offer", sku) # {}

\* a deletion of the draft in which the withdraw call of one SKU answered
\* an error status and the calls of another SKU followed
C32_Witness ==
    /\ TeardownAnsweredThroughout /\ inv[1].op = "delete"
    /\ \E k \in DOMAIN inv[1].teardown_log :
          /\ inv[1].teardown_log[k].step = "withdraw"
          /\ inv[1].teardown_log[k].resp = "error"
          /\ \E j \in (k + 1)..Len(inv[1].teardown_log) :
                /\ inv[1].teardown_log[j].sku # inv[1].teardown_log[k].sku
                /\ inv[1].teardown_log[j].step = "delete_inventory"

\* a single-marketplace teardown in which the list-offers call answered an
\* error status and the inventory item was deleted all the same
C32_WitnessUnpublish ==
    /\ TeardownAnsweredThroughout /\ inv[1].op = "unpublish"
    /\ Len(inv[1].teardown_log) = 2
    /\ inv[1].teardown_log[1].step = "list_offers"
    /\ inv[1].teardown_log[1].resp = "error"
    /\ inv[1].teardown_log[2].step = "delete_inventory"
    /\ inv[1].teardown_log[2].resp = "ok"

(***************************************************************************)
(* Properties of the writes to the draft document.                         *)
(***************************************************************************)
\* C33: a publish call or a single-marketplace unpublish call that has
\* returned left every field of the draft other than status,
\* marketplace_listings and multi_marketplace_results as it found it
C33_OrchestratorFrame ==
    /\ inv[1].op \in {"publish", "unpublish"}
    /\ inv[1].pc = "done"
    /\ draft.exists
    => frame_of(draft) = inv[1].read_frame

\* C37: whenever a publish call or a single-marketplace unpublish call has
\* returned, a draft in status PUBLISHED has a non-empty
\* marketplace_listings
C37_PublishedHasListing ==
    /\ inv[1].op \in {"publish", "unpublish"}
    /\ inv[1].pc = "done"
    /\ draft.exists
    /\ draft.status = "PUBLISHED"
    => draft.marketplace_listings # EmptyMap

\* C38: after a publish call every entry of marketplace_listings and
\* every successful result carries a listing id and the storefront URL
\* built from it
C38_SuccessCarriesListing ==
    /\ inv[1].op = "publish"
    /\ inv[1].pc = "done"
    /\ draft.exists
    => /\ \A m \in DOMAIN draft.marketplace_listings :
            /\ draft.marketplace_listings[m].listing_id # NoId
            /\ draft.marketplace_listings[m].listing_url # NoUrl
       /\ \A m \in DOMAIN inv[1].results :
            inv[1].results[m].success =>
                /\ inv[1].results[m].listing_id # NoId
                /\ inv[1].results[m].listing_url # NoUrl

\* C39: within a publish call the create-offer and publish-offer calls
\* of a marketplace are issued only after its inventory upsert answered
\* 200/204, and a marketplace whose upsert failed gets a failed result
C39_PublishFollowsInventory ==
    inv[1].op = "publish" =>
        \A m \in DOMAIN inv[1].inventory_status :
            inv[1].inventory_status[m] # "ok" =>
                /\ <<"create_offer", m>> \notin inv[1].calls
                /\ <<"publish_offer", m>> \notin inv[1].calls
                /\ m \in DOMAIN inv[1].results => ~inv[1].results[m].success

(***************************************************************************)
(* Properties of the rates cache under several tasks.                      *)
(***************************************************************************)
\* C34: whatever the interleaving of the calls, the cache is either empty
\* without a timestamp, or the complete table parsed from one answer of
\* the feed, holding EUR and another currency, with the time at which
\* that very table was stored
C34_CacheReplacedWhole ==
    fx.pc = "tasks" =>
        \/ /\ fx.rates_cache = EmptyMap
           /\ fx.cache_timestamp = NoTimestamp
           /\ fx.last_store = NoStore
        \/ /\ fx.last_store # NoStore
           /\ fx.rates_cache = fx.last_store.feed.cubes @@ ("EUR" :> One)
           /\ "EUR" \in DOMAIN fx.rates_cache
           /\ DOMAIN fx.rates_cache # {"EUR"}
           /\ fx.cache_timestamp = fx.last_store.at
           /\ fx.cache_timestamp # NoTimestamp

\* two tasks found the cache expired and both fetched; the second store,
\* of another table and at a later hour, replaced the first
C34_Witness ==
    /\ fx.pc = "tasks"
    /\ \A p \in Procs : fx.task[p].pc = "idle"
    /\ fx.task[2].overlapped
    /\ fx.last_store.by = 2
    /\ fx.previous_store.by = 1
    /\ fx.previous_store.feed # fx.last_store.feed
    /\ fx.previous_store.at < fx.last_store.at
    /\ fx.cache_timestamp = fx.last_store.at

(***************************************************************************)
(* Properties of the configuration resolver called in sequence.            *)
(***************************************************************************)
\* C36: after any sequence of earlier calls, get_marketplace_config of a
\* catalogued marketplace without settings returns the compiled-in
\* defaults, no policy id and no shipping service code, and the
\* validation reports the three policies missing
C36_ResolverLeavesCatalog ==
    /\ app.fn = "get_marketplace_config"
    /\ app.db_settings = EmptyMap
    /\ app.marketplace_id \in MARKETPLACE_CONFIG
    => /\ app.config.fulfillment_policy_id = NoKey
       /\ app.config.payment_policy_id = NoKey
       /\ app.config.return_policy_id = NoKey
       /\ app.config.shipping_service_code = NoKey
       /\ \A f \in {"fulfillment_policy_id", "payment_policy_id",
                     "return_policy_id"} :
             \E k \in DOMAIN app.missing :
                app.missing[k] = <<f, app.marketplace_id>>

(***************************************************************************)
(* Properties of bootstrap_marketplaces.                                   *)
(***************************************************************************)
\* a run of the handler has returned its results
BootReturned ==
    /\ app.fn = "bootstrap_marketplaces"
    /\ app.pc = "done"
    /\ app.abort = ""

\* the entries of the returned results for marketplace m
ResultsFor(m) ==
    {k \in DOMAIN app.results : app.results[k].marketplace_id = m}

\* C40: a run that returns holds exactly one result per requested
\* marketplace, so that summary.total = len(results) is the number of
\* marketplaces requested
C40_BootstrapReportsAll ==
    BootReturned =>
        /\ \A k \in DOMAIN app.marketplaces :
              Cardinality(ResultsFor(app.marketplaces[k])) = 1
        /\ Len(app.results) = Len(app.marketplaces)

\* a run has returned its results, and so had the run before it, which
\* was asked for the same marketplaces
SecondRunReturned ==
    /\ BootReturned
    /\ app.first.ran
    /\ app.first.abort = ""
    /\ app.first.marketplaces = app.marketplaces

\* the policy ids and the location key stored for a marketplace
StoredIds(stored) ==
    <<stored.fulfillment_policy_id, stored.payment_policy_id,
      stored.return_policy_id, stored.merchant_location_key>>

\* C35: a second run for the same marketplaces, on the remote state the
\* first run left, creates no location, payment policy or return policy
\* where the remote holds one already, and stores for every marketplace
\* the first run stored the same policy ids and location key
C35_BootstrapIdempotent ==
    SecondRunReturned =>
        \A m \in Range(app.marketplaces) \cap MARKETPLACE_CONFIG :
            /\ <<"location", m>> \in app.created =>
                  warehouse_key(m) \notin app.first.remote.locations
            /\ <<"payment", m>> \in app.created =>
                  app.first.remote.payment[m] = <<>>
            /\ <<"return", m>> \in app.created =>
                  app.first.remote.returns[m] = <<>>
            /\ m \in DOMAIN app.first.settings_update =>
                  /\ m \in DOMAIN settings
                  /\ StoredIds(settings[m]) = StoredIds(app.first.settings[m])
====
